---- MODULE Spec2Model ----
(***************************************************************************)
(* Model of preprocess.py (dreeves/crashla): the NHTSA row validator, the  *)
(* fault-table loader, the incident deduplicator, the analysis-window      *)
(* filter, the merge with the fault estimates and the incident-coverage    *)
(* estimator.                                                              *)
(*                                                                         *)
(* Representation of values                                                *)
(*   - text fields are strings; str.strip() is the operator Strip, which   *)
(*     maps the padded spellings of the value universe to their core;      *)
(*   - a month label "JAN-2026" is the tuple <<"JAN", 2026>> (already      *)
(*     stripped), the empty label is <<>> and a label that is not of the   *)
(*     form ABC-YYYY is a 1-tuple; an ISO month "2026-01" is <<2026, 1>>;  *)
(*   - a ratio five/total is the pair <<five, total>> (exact rational);    *)
(*     a rounded coverage value is an integer number of ten-thousandths    *)
(*     (round(x, 4) * 10^4), so 1.0 is 10000;                              *)
(*   - a Python dict is a sequence of entries in insertion order.          *)
(***************************************************************************)
EXTENDS Integers, Sequences, FiniteSets, TLC

\* ------------------------------------------------------------------ bounds

\* Longest NHTSA row list drawn as input of main().
MaxRows == 3

\* Longest fault table drawn for the estimator whose table is enumerated.
MaxFaultRows == 2

\* Longest row list drawn for the validator run on its own.
MaxCheckedRows == 2

\* Aliased columns (pairs of ARCHIVE_COLUMN_MAP, from the first) whose keys
\* the archive rows drawn may hold.
MaxAliasedColumns == 3

\* Years before 2025 and after 2026 from which months are drawn for
\* month_coverage.
MaxYearsAround == 2

\* Months of history, before the last window month, a company's tallies
\* may cover.
MaxHistoryMonths == 4

\* ------------------------------------------------------- generic helpers

SeqsUpTo(S, n) == UNION {[1..k -> S] : k \in 0..n}

Range(s) == {s[i] : i \in DOMAIN s}

RECURSIVE SelectSeqBy(_, _)
\* A list comprehension [r for r in s if r in keep] (keeps the order).
SelectSeqBy(s, keep) ==
    IF s = <<>> THEN <<>>
    ELSE IF Head(s) \in keep THEN <<Head(s)>> \o SelectSeqBy(Tail(s), keep)
         ELSE SelectSeqBy(Tail(s), keep)

\* str.strip() on the value universe of the model: the padded spellings.
Strip(s) ==
    CASE s = "X "    -> "X"
      [] s = " "     -> ""
      [] s = "R1 "   -> "R1"
      [] s = "ok "   -> "ok"
      [] s = " None" -> "None"
      [] OTHER       -> s

\* str.isdigit() and int() on the version spellings of the model.
IsDigit(s) == s \in {"0", "1", "2", "3"}

IntOf(s) ==
    CASE s = "0" -> 0
      [] s = "1" -> 1
      [] s = "2" -> 2
      [] s = "3" -> 3

\* ------------------------------------------------------ program constants

FAULT_MODELS == <<"claude", "codex", "gemini">>

COMPANY_SHORT(c) ==
    CASE c = "Waymo LLC"   -> "Waymo"
      [] c = "Tesla, Inc." -> "Tesla"
      [] c = "Zoox, Inc."  -> "Zoox"
      [] OTHER             -> c

MONTH_ABBR_TO_NUM ==
    [a \in {"JAN", "FEB", "MAR", "APR", "MAY", "JUN",
            "JUL", "AUG", "SEP", "OCT", "NOV", "DEC"} |->
        CASE a = "JAN" -> 1  [] a = "FEB" -> 2  [] a = "MAR" -> 3
          [] a = "APR" -> 4  [] a = "MAY" -> 5  [] a = "JUN" -> 6
          [] a = "JUL" -> 7  [] a = "AUG" -> 8  [] a = "SEP" -> 9
          [] a = "OCT" -> 10 [] a = "NOV" -> 11 [] a = "DEC" -> 12]

\* 'JAN-2026' -> '2026-01'
nhtsa_month_to_iso(label) == <<label[2], MONTH_ABBR_TO_NUM[label[1]]>>

EXPECTED_REPORT_TYPES ==
    {"1-Day", "5-Day", "10-Day Update", "Monthly", "Update",
     "No New or Updated Incident Reports"}

EXPECTED_DRIVER_TYPES ==
    {"", "Consumer", "In-Vehicle (Commercial / Test)",
     "In-Vehicle and Remote (Commercial / Test)", "None",
     "Other, see Narrative", "Remote (Commercial / Test)", "Unknown"}

EXPECTED_COMPANIES ==
    {"Ambarella", "Apollo Autonomous Driving USA", "Apple Inc.", "Argo AI",
     "Aurora Operations, Inc.", "AutoX Technologies Inc", "Avride Inc.",
     "Beep, Inc.", "Chrysler (FCA US, LLC)", "Cruise LLC",
     "Daimler Trucks North America, LLC", "Easymile Inc.", "First Transit",
     "Ford Motor Company", "General Motors, LLC", "Ghost Autonomy Inc.",
     "Hyundai Motor America", "Kia America, Inc.", "Kodiak Robotics",
     "Local Motors Industries", "Lucid USA, Inc.", "May Mobility",
     "Mercedes-Benz USA, LLC", "Mobileye Vision Technologies", "Motional",
     "NAVYA Inc.", "NVIDIA CORP", "Navistar, Inc.", "Nuro", "Ohmio, Inc.",
     "Oxbotica", "PACCAR Incorporated", "PlusAI Inc", "Pony.ai",
     "Robert Bosch, LLC", "Robotic Research", "Stack AV",
     "TORC Robotics, Inc.", "Tesla, Inc.",
     "Toyota Motor Engineering & Manufacturing",
     "Transdev Alternative Services", "TuSimple", "VinFast Auto, LLC",
     "Volkswagen Group of America, Inc.", "Volvo Car USA, LLC",
     "Waymo LLC", "WeRide Corp", "Zoox, Inc."}

\* ^[A-Z]{3}-\d{4}$ : a label of the form ABC-YYYY is a 2-tuple.
INCIDENT_DATE_RE(label) == Len(label) = 2

SUBMISSION_DATE_RE(label) == Len(label) = 2

VMT_MONTHS ==
    {<<"JUN", 2025>>, <<"JUL", 2025>>, <<"AUG", 2025>>, <<"SEP", 2025>>,
     <<"OCT", 2025>>, <<"NOV", 2025>>, <<"DEC", 2025>>, <<"JAN", 2026>>}

\* NHTSA_WINDOW_END = "2026-01-15" as <<year, month, day>>.
NHTSA_WINDOW_END == <<2026, 1, 15>>

\* ------------------------------------------------------------- the inputs

Row(iid, rid, ver, dtype, rtype, entity, idate, sub) ==
    [iid |-> iid, rid |-> rid, ver |-> ver, dtype |-> dtype, rtype |-> rtype,
     entity |-> entity, idate |-> idate, sub |-> sub]

\* The NHTSA rows the inputs are drawn from: the versions of incident X
\* (two of them with the same version), incident Y inside and outside the
\* window, a padded spelling of X, a row with a driver, a placeholder row, a
\* row with a type outside the allow-list and a first filing of the no-op
\* type.
RowPool ==
    {Row("X",  "R1", "1", "None", "5-Day", "Waymo LLC", <<"DEC", 2025>>, <<>>),
     Row("X",  "R2", "2", "None", "Update", "Waymo LLC", <<"JAN", 2026>>,
         <<"JAN", 2026>>),
     Row("X",  "R3", "2", "None", "Monthly", "Tesla, Inc.", <<"JAN", 2026>>,
         <<>>),
     Row("Y",  "R4", "1", "None", "Monthly", "Waymo LLC", <<"JAN", 2026>>,
         <<"FEB", 2026>>),
     Row("Y",  "R5", "3", "None", "Update", "Waymo LLC", <<"MAY", 2025>>, <<>>),
     Row("X ", "R6", "1", "None", "5-Day", "Waymo LLC", <<"JAN", 2026>>, <<>>),
     Row("X",  "R7", "3", "Consumer", "Update", "Waymo LLC", <<"JAN", 2026>>,
         <<>>),
     Row(" ",  "", "", "", "No New or Updated Incident Reports", "Nobody",
         <<>>, <<>>),
     Row("Y",  "R8", "1", "None", "Annual", "Waymo LLC", <<"JAN", 2026>>, <<>>),
     Row("Y",  "R9", "1", "None", "No New or Updated Incident Reports",
         "Zoox, Inc.", <<"DEC", 2025>>, <<>>)}

\* Rows that fail one check of the validator each (in the order of the
\* checks), a row that passes with padded cells, and placeholder rows whose
\* other cells would fail every check.
RejectedRowPool ==
    {Row("Z", "R10", "1", "Pilot", "5-Day", "Waymo LLC", <<"JAN", 2026>>, <<>>),
     Row("Z", "R11", "1", "None", "5-Day", "Nobody", <<"JAN", 2026>>, <<>>),
     Row("Z", "R12", "1", "None", "5-Day", "Waymo LLC", <<"2026-01">>, <<>>),
     Row("Z", "R13", "1", "None", "5-Day", "Waymo LLC", <<"XXX", 2026>>, <<>>),
     Row("Z", "R14", "1", "None", "5-Day", "Waymo LLC", <<"JAN", 2026>>,
         <<"2026-02">>),
     Row("Z", "R15", "1", "None", "5-Day", "Waymo LLC", <<"JAN", 2026>>,
         <<"XXX", 2026>>),
     Row("Z", "R16", "0", "None", "5-Day", "Waymo LLC", <<"JAN", 2026>>, <<>>),
     Row("Z", "R17", "v2", "None", "5-Day", "Waymo LLC", <<"JAN", 2026>>,
         <<>>)}

PaddedRowPool ==
    {Row("X ", "R1 ", "1", " None", "5-Day", "Waymo LLC", <<"JAN", 2026>>,
         <<>>),
     Row("Z", "R18", "1", "", "Monthly", "Cruise LLC", <<"APR", 2025>>,
         <<"MAY", 2025>>)}

PlaceholderRowPool ==
    {Row("", "R19", "v2", "Pilot", "Annual", "Nobody", <<"2026-01">>,
         <<"2026-02">>),
     Row("Z", "R20", "0", "Pilot", "Annual", "Nobody", <<>>, <<"XXX", 2026>>)}

\* The rows the validator is run on when it is run on its own.
ValidatePool ==
    RowPool \cup RejectedRowPool \cup PaddedRowPool \cup PlaceholderRowPool

FaultRow(rid, ff, reasoning) ==
    [reportID |-> rid, faultfrac |-> ff, reasoning |-> reasoning]

\* The fault rows the enumerated table is drawn from.
FaultRowPool ==
    {FaultRow("R1", "0.5", "ok"),  FaultRow("R1", "0.50", "ok"),
     FaultRow("R1", "0.5", "ok "), FaultRow("R1 ", "0.5", "ok"),
     FaultRow("R1", "0.7", "ok"),  FaultRow("R1", "0.5", "no"),
     FaultRow("R2", "0.7", "no"),  FaultRow("", "0.5", "ok"),
     FaultRow(" ", "0.5", "ok"),   FaultRow("R2", "1.5", "ok"),
     FaultRow("R2", "nan", "ok"),  FaultRow("R2", "abc", "ok")}

\* The tables of the two other estimators.
OtherFaultTables ==
    {<<FaultRow("R1", "0.5", "ok")>>,
     <<FaultRow("R1", "0.7", "no"), FaultRow("R2", "0.5", "ok")>>,
     <<FaultRow("R2", "0.5", "ok"), FaultRow("R2", "1.5", "ok")>>}

\* A table with one estimate for each of the given report ids.
RECURSIVE TableFor(_)
TableFor(rids) ==
    IF rids = <<>> THEN <<>>
    ELSE <<FaultRow(Head(rids), "0.5", "ok")>> \o TableFor(Tail(rids))

\* The fault files main() is run with: every estimator covers every report,
\* every estimator leaves the same reports out, or one estimator differs.
MainFaultFiles ==
    LET full == TableFor(<<"R1", "R2", "R3", "R4", "R5", "R6", "R7", "R9">>)
        part == TableFor(<<"R1", "R4", "R7">>)
    IN {[claude |-> full, codex |-> full, gemini |-> full],
        [claude |-> part, codex |-> part, gemini |-> part],
        [claude |-> full, codex |-> full, gemini |-> part]}

\* ---------------------------------------------------------------- state

VARIABLES
    pc,                  \* the stage main() is at (where it stopped, if it
                         \* raised)
    err,                 \* the message of the raised error, "" while running
    rows,                \* fetch_nhtsa_csv(): the rows, in file order
    fault_files,         \* the rows of the three faultfrac-*.csv files
    valid_rows,          \* main: the rows that passed the validator
    mi,                  \* load_fault_models: index of the file being parsed
    models,              \* load_fault_models: model -> parsed table
    fault_ids,           \* main: the ids with fault estimates
    by_incident,         \* main: iid -> {_ver, _row}
    window_by_incident,  \* main: the entries dated inside the window
    excluded_count,      \* main: how many entries the window dropped
    incidents,           \* main: the output records
    nhtsa_rows,          \* incident_coverage: its argument (window_rows)
    submission_months,   \* incident_coverage: the submission months seen
    cov_incident,        \* incident_coverage: its own by_incident
    counts,              \* incident_coverage: (company, month) -> five, total
    companies,           \* incident_coverage: the sorted company names
    five_day_fracs,      \* incident_coverage: company -> [frac, ...]
    last_month_has_monthly,  \* incident_coverage: company -> bool
    ci,                  \* incident_coverage: index into companies
    result,              \* incident_coverage: the map being built
    inc_cov,             \* main: the map incident_coverage returned
    printed,             \* the lines main() and incident_coverage printed
    nhtsa_modified_date, \* fetch_nhtsa_csv(): the Last-Modified date of the
                         \* download as <<year, month, day>>, <<>> if none
    vmt_text,            \* main: the lines fetch_vmt_sheet_csv returned
    incidents_js,        \* the file incidents.js
    vmt_js,              \* the file vmt.js
    archive_row,         \* _normalize_archive_row: the dict it works on
    archive_row_in,      \* the dict as csv.DictReader produced it
    calls,               \* how often _normalize_archive_row was applied
    month_str,           \* month_coverage: its argument
    cov                  \* month_coverage: the value returned, <<>> before

covVars == <<nhtsa_rows, submission_months, cov_incident, counts, companies,
             five_day_fracs, last_month_has_monthly, ci, result, inc_cov>>

fileVars == <<nhtsa_modified_date, vmt_text, incidents_js, vmt_js>>

fnVars == <<archive_row, archive_row_in, calls, month_str, cov>>

extVars == <<printed, fileVars, fnVars>>

vars == <<pc, err, rows, fault_files, valid_rows, mi, models, fault_ids,
          by_incident, window_by_incident, excluded_count, incidents,
          covVars, extVars>>

\* A raised error (a failed must(), a ValueError, ...) ends the run where
\* it is: no stage is enabled once err is set.
Raise(msg) == err' = msg /\ UNCHANGED pc

Running(stage) == pc = stage /\ err = ""

\* --------------------------------------------------------- Row Validator

\* The first check of the validator that row r fails, "" if it passes all.
RowError(r) ==
    LET rt      == Strip(r.rtype)
        dt      == Strip(r.dtype)
        company == Strip(r.entity)
        ver     == Strip(r.ver)
    IN  IF rt \notin EXPECTED_REPORT_TYPES THEN "unexpected Report Type"
        ELSE IF dt \notin EXPECTED_DRIVER_TYPES
            THEN "unexpected Driver / Operator Type"
        ELSE IF company \notin EXPECTED_COMPANIES
            THEN "unexpected Reporting Entity"
        ELSE IF ~INCIDENT_DATE_RE(r.idate)
            THEN "unexpected Incident Date format"
        ELSE IF r.idate[1] \notin DOMAIN MONTH_ABBR_TO_NUM
            THEN "unknown month abbreviation in Incident Date"
        ELSE IF r.sub # <<>> /\ ~SUBMISSION_DATE_RE(r.sub)
            THEN "unexpected Report Submission Date format"
        ELSE IF r.sub # <<>> /\ r.sub[1] \notin DOMAIN MONTH_ABBR_TO_NUM
            THEN "unknown month abbreviation in Submission Date"
        ELSE IF ~(IsDigit(ver) /\ IntOf(ver) >= 1)
            THEN "Report Version must be positive integer"
        ELSE ""

\* A validator that skips no row.
NeverPlaceholder(r) == FALSE

\* Placeholder rows (empty incident id or empty date) are skipped.
IsPlaceholder(r) == Strip(r.iid) = "" \/ r.idate = <<>>

RECURSIVE ValidateRows(_)
\* The loop over the rows: <<error, valid_rows>>, the error of the first
\* row that fails (the rows after it are not looked at).
ValidateRows(rs) ==
    IF rs = <<>> THEN <<"", <<>>>>
    ELSE IF IsPlaceholder(Head(rs)) THEN ValidateRows(Tail(rs))
    ELSE IF RowError(Head(rs)) # "" THEN <<RowError(Head(rs)), <<>>>>
    ELSE LET rest == ValidateRows(Tail(rs))
         IN  <<rest[1], <<Head(rs)>> \o rest[2]>>

Validate ==
    /\ Running("validate")
    /\ IF Len(rows) = 0
       THEN Raise("NHTSA CSV has no rows") /\ UNCHANGED valid_rows
       ELSE LET v == ValidateRows(rows)
            IN  IF v[1] # ""
                THEN Raise(v[1]) /\ UNCHANGED valid_rows
                ELSE /\ valid_rows' = v[2]
                     /\ pc' = "parse_fault"
                     /\ UNCHANGED err
    /\ UNCHANGED <<rows, fault_files, mi, models, fault_ids, by_incident,
                   window_by_incident, excluded_count, incidents,
                   covVars>>
    /\ UNCHANGED extVars

\* ------------------------------------------------- Fault-Model Reconciler

\* float(text): <<"num", tenths>>, <<"nan", 0>>, or <<"ValueError", 0>> for
\* a text that is no number.
Float(s) ==
    CASE s = "0.5"  -> <<"num", 5>>
      [] s = "0.50" -> <<"num", 5>>
      [] s = "0.7"  -> <<"num", 7>>
      [] s = "1.5"  -> <<"num", 15>>
      [] s = "nan"  -> <<"nan", 0>>
      [] OTHER      -> <<"ValueError", 0>>

\* The keys of a parsed table, and the item stored for a key.
Ids(data) == {data[i].rid : i \in DOMAIN data}

ItemOf(data, rid) ==
    LET i == CHOOSE j \in DOMAIN data : data[j].rid = rid
    IN  [faultfrac |-> data[i].faultfrac, reasoning |-> data[i].reasoning]

\* A duplicate check that compares the fraction only.
SameFraction(old, item) == old.faultfrac = item.faultfrac

\* Whether a repeated id's item is accepted: data[rid] == item.
SameItem(old, item) == old = item

RECURSIVE ParseFaultRows(_, _)
\* The loop of parse_fault_csv over the rows left, data being the dict so
\* far: <<error, data>>.
ParseFaultRows(rs, data) ==
    IF rs = <<>> THEN <<"", data>>
    ELSE
      LET row       == Head(rs)
          rid       == Strip(row.reportID)
          f         == Float(row.faultfrac)
          reasoning == Strip(row.reasoning)
          item      == [faultfrac |-> f[2], reasoning |-> reasoning]
      IN  IF rid = "" THEN <<"fault row missing Report ID", data>>
          ELSE IF f[1] = "ValueError" THEN <<"ValueError", data>>
          ELSE IF f[1] # "num" THEN <<"faultfrac not finite", data>>
          ELSE IF ~(0 <= f[2] /\ f[2] <= 10)
              THEN <<"faultfrac out of range", data>>
          ELSE IF rid \in Ids(data)
              THEN IF SameItem(ItemOf(data, rid), item)
                   THEN ParseFaultRows(Tail(rs), data)
                   ELSE <<"duplicate Report ID with conflicting fault row",
                          data>>
          ELSE ParseFaultRows(Tail(rs),
                   Append(data, [rid |-> rid, faultfrac |-> f[2],
                                 reasoning |-> reasoning]))

\* parse_fault_csv(path) on the rows of the file: <<error, data>>.
parse_fault_csv(rs) ==
    IF Len(rs) = 0 THEN <<"fault csv has no rows", <<>>>>
    ELSE ParseFaultRows(rs, <<>>)

\* One turn of the loop of load_fault_models: parse the next file.
ParseFault ==
    /\ Running("parse_fault")
    /\ LET model == FAULT_MODELS[mi]
           p     == parse_fault_csv(fault_files[model])
       IN  IF p[1] # ""
           THEN Raise(p[1]) /\ UNCHANGED <<models, mi>>
           ELSE /\ models' = [models EXCEPT ![model] = p[2]]
                /\ mi' = mi + 1
                /\ pc' = IF mi = Len(FAULT_MODELS) THEN "match_ids"
                         ELSE "parse_fault"
                /\ UNCHANGED err
    /\ UNCHANGED <<rows, fault_files, valid_rows, fault_ids, by_incident,
                   window_by_incident, excluded_count, incidents,
                   covVars>>
    /\ UNCHANGED extVars

\* A loader that forgets to compare gemini.
ComparedModelsCodexOnly == {"codex"}

\* The estimators whose id set load_fault_models compares with claude's.
ComparedModels == {"codex", "gemini"}

\* The end of load_fault_models: the id sets must match.
MatchIds ==
    /\ Running("match_ids")
    /\ LET ids == Ids(models["claude"])
       IN  IF \E m \in ComparedModels : Ids(models[m]) # ids
           THEN Raise("fault model ID sets must match") /\ UNCHANGED fault_ids
           ELSE /\ fault_ids' = ids
                /\ pc' = "dedup"
                /\ UNCHANGED err
    /\ UNCHANGED <<rows, fault_files, valid_rows, mi, models, by_incident,
                   window_by_incident, excluded_count, incidents,
                   covVars>>
    /\ UNCHANGED extVars

\* --------------------------------------------------- Incident Deduplicator

\* [r for r in rows if r["Driver / Operator Type"] == "None"]
NoneRows(rs) == SelectSeqBy(rs, {r \in Range(rs) : r.dtype = "None"})

\* The keys of a dict of entries, and the place of a key in it.
Keys(d) == {d[i].iid : i \in DOMAIN d}

IndexOf(d, iid) == CHOOSE i \in DOMAIN d : d[i].iid = iid

\* A dedup that keeps the last row of an incident, whatever its version.
NewerOrLast(ver, kept) == TRUE

\* Whether a row of version ver replaces the entry kept so far.
Newer(ver, kept) == ver > kept

RECURSIVE DedupRows(_, _)
\* The dedup loop of main(): by_incident after the rows rs, from acc.
DedupRows(rs, acc) ==
    IF rs = <<>> THEN acc
    ELSE
      LET r     == Head(rs)
          iid   == r.iid
          ver   == IntOf(r.ver)
          entry == [iid |-> iid, _ver |-> ver, _row |-> r]
      IN  IF iid \notin Keys(acc) THEN DedupRows(Tail(rs), Append(acc, entry))
          ELSE IF Newer(ver, acc[IndexOf(acc, iid)]._ver)
              THEN DedupRows(Tail(rs),
                             [acc EXCEPT ![IndexOf(acc, iid)] = entry])
          ELSE DedupRows(Tail(rs), acc)

Dedup ==
    /\ Running("dedup")
    /\ by_incident' = DedupRows(NoneRows(valid_rows), <<>>)
    /\ pc' = "window"
    /\ UNCHANGED <<err, rows, fault_files, valid_rows, mi, models, fault_ids,
                   window_by_incident, excluded_count, incidents,
                   covVars>>
    /\ UNCHANGED extVars

\* ------------------------------------------------------- window filter

\* A printed line: the text of its format string and the values it is
\* formatted with (a count, a report id, a company, a month), "" or <<>>
\* for a value the line does not carry.
Line(kind, count, reportId, company, date) ==
    [kind |-> kind, count |-> count, reportId |-> reportId,
     company |-> company, date |-> date]

\* A filter that reports its count even when it dropped nothing.
ExcludedLinesAlways(n) ==
    <<Line("Excluded incidents outside VMT window", n, "", "", <<>>)>>

\* if excluded_count > 0: print(f"  Excluded {excluded_count} incidents
\* outside VMT window")
ExcludedLines(n) ==
    IF n > 0
    THEN <<Line("Excluded incidents outside VMT window", n, "", "", <<>>)>>
    ELSE <<>>

\* A filter that keeps every incident, whatever its date.
AllInWindow(entry) == TRUE

\* A filter that drops every incident.
NoneInWindow(entry) == FALSE

\* "nhtsa_month not in VMT_MONTHS" decides whether the entry is dropped.
InWindow(entry) == entry._row.idate \in VMT_MONTHS

WindowFilter ==
    /\ Running("window")
    /\ window_by_incident' =
         SelectSeqBy(by_incident, {e \in Range(by_incident) : InWindow(e)})
    /\ excluded_count' =
         Cardinality({i \in DOMAIN by_incident : ~InWindow(by_incident[i])})
    /\ pc' = "merge"
    /\ UNCHANGED <<err, rows, fault_files, valid_rows, mi, models, fault_ids,
                   by_incident, incidents,
                   covVars>>
    /\ printed' = printed \o ExcludedLines(excluded_count')
    /\ UNCHANGED <<fileVars, fnVars>>

\* ----------------------------------------------------------------- merge

\* The fault sub-record of a report: one item per estimator.
FaultOf(rid) == [m \in Range(FAULT_MODELS) |-> ItemOf(models[m], rid)]

\* The output record of a canonical row (the fields the model carries).
Record(r) ==
    [reportId   |-> Strip(r.rid),
     version    |-> Strip(r.ver),
     company    |-> COMPANY_SHORT(Strip(r.entity)),
     date       |-> r.idate,
     incidentId |-> Strip(r.iid),
     fault      |-> FaultOf(Strip(r.rid))]

\* A merge that looks up the estimates without checking the id first.
HasFaultUnchecked(rid) == TRUE

\* must(rid in fault_ids, "missing fault estimates for report")
HasFault(rid) == rid \in fault_ids

RECURSIVE MergeEntries(_, _)
\* The loop that builds the records: <<error, incidents>>.
MergeEntries(es, acc) ==
    IF es = <<>> THEN <<"", acc>>
    ELSE
      LET r   == Head(es)._row
          rid == Strip(r.rid)
      IN  IF ~HasFault(rid)
              THEN <<"missing fault estimates for report", acc>>
          ELSE IF \E m \in Range(FAULT_MODELS) : rid \notin Ids(models[m])
              THEN <<"KeyError", acc>>
          ELSE MergeEntries(Tail(es), Append(acc, Record(r)))

Merge ==
    /\ Running("merge")
    /\ LET m == MergeEntries(window_by_incident, <<>>)
       IN  IF m[1] # ""
           THEN Raise(m[1]) /\ incidents' = m[2]
           ELSE incidents' = m[2] /\ pc' = "sort" /\ UNCHANGED err
    /\ UNCHANGED <<rows, fault_files, valid_rows, mi, models, fault_ids,
                   by_incident, window_by_incident, excluded_count,
                   covVars>>
    /\ UNCHANGED extVars

\* The order of the company names of the model as Python compares strings.
StrRank(c) ==
    CASE c = "Cruise LLC" -> 1
      [] c = "Tesla"      -> 2
      [] c = "Waymo"      -> 3
      [] c = "Zoox"       -> 4

\* month_order.get(date, 99)
MonthOrder(label) ==
    CASE label = <<"JUN", 2025>> -> 1 [] label = <<"JUL", 2025>> -> 2
      [] label = <<"AUG", 2025>> -> 3 [] label = <<"SEP", 2025>> -> 4
      [] label = <<"OCT", 2025>> -> 5 [] label = <<"NOV", 2025>> -> 6
      [] label = <<"DEC", 2025>> -> 7 [] label = <<"JAN", 2026>> -> 8
      [] OTHER -> 99

\* The sort key (company, month_order) compared as tuples.
KeyLess(a, b) ==
    \/ StrRank(a.company) < StrRank(b.company)
    \/ /\ a.company = b.company
       /\ MonthOrder(a.date) < MonthOrder(b.date)

RECURSIVE InsertSorted(_, _)
InsertSorted(sorted, rec) ==
    IF sorted = <<>> THEN <<rec>>
    ELSE IF KeyLess(rec, Head(sorted)) THEN <<rec>> \o sorted
    ELSE <<Head(sorted)>> \o InsertSorted(Tail(sorted), rec)

RECURSIVE SortIncidents(_, _)
\* list.sort(key=...): stable, records with equal keys keep their order.
SortIncidents(recs, acc) ==
    IF recs = <<>> THEN acc
    ELSE SortIncidents(Tail(recs), InsertSorted(acc, Head(recs)))

\* The check that every output record has fault data, then the sort.
CheckAndSort ==
    /\ Running("sort")
    /\ LET incident_ids  == {incidents[i].reportId : i \in DOMAIN incidents}
           missing_fault == incident_ids \ fault_ids
       IN  IF missing_fault # {}
           THEN Raise("incidents missing fault estimates")
                /\ UNCHANGED incidents
           ELSE /\ incidents' = SortIncidents(incidents, <<>>)
                /\ pc' = "coverage"
                /\ UNCHANGED err
    /\ UNCHANGED <<rows, fault_files, valid_rows, mi, models, fault_ids,
                   by_incident, window_by_incident, excluded_count,
                   covVars>>
    /\ UNCHANGED extVars

\* ------------------------------------------------------ exact arithmetic

RECURSIVE GCD(_, _)
GCD(a, b) == IF b = 0 THEN a ELSE GCD(b, a % b)

LCM(a, b) == (a \div GCD(a, b)) * b

RECURSIVE LCMOfTotals(_)
\* The common denominator of a list of ratios <<five, total>>.
LCMOfTotals(fracs) ==
    IF fracs = <<>> THEN 1 ELSE LCM(Head(fracs)[2], LCMOfTotals(Tail(fracs)))

\* The numerators of the ratios over the common denominator d.
Scaled(fracs, d) == [i \in DOMAIN fracs |-> fracs[i][1] * (d \div fracs[i][2])]

RECURSIVE SumSeq(_)
SumSeq(ns) == IF ns = <<>> THEN 0 ELSE Head(ns) + SumSeq(Tail(ns))

MinOf(ns) == CHOOSE x \in Range(ns) : \A y \in Range(ns) : x <= y

MaxOf(ns) == CHOOSE x \in Range(ns) : \A y \in Range(ns) : x >= y

\* round(x, RoundDigits) keeps this many decimals: values are counted in
\* units of 1 / RoundScale.
RoundDigits == 4

RoundScale == 10000

RECURSIVE LongDivide(_, _, _, _)
\* k more decimal digits of r / d after the digits acc: <<digits, rest>>.
LongDivide(r, d, k, acc) ==
    IF k = 0 THEN <<acc, r>>
    ELSE LongDivide((r * 10) % d, d, k - 1, acc * 10 + ((r * 10) \div d))

\* round(n / d, 4) in ten-thousandths: to the nearest, an exact half to the
\* even neighbour (what Python does with a half its float holds exactly).
Round4(n, d) ==
    LET q    == LongDivide(n % d, d, RoundDigits, n \div d)
        down == q[1]
    IN  IF 2 * q[2] > d THEN down + 1
        ELSE IF 2 * q[2] < d THEN down
        ELSE IF down % 2 = 0 THEN down ELSE down + 1

\* ------------------------------------ Report-Type Classifier and Coverage

EmptyMap == [k \in {} |-> 0]

\* Update of a dict held as a function: d[key] = value.
Put(d, key, value) ==
    [k \in DOMAIN d \cup {key} |-> IF k = key THEN value ELSE d[k]]

VMT_NHTSA_MONTHS ==
    {<<"JUN", 2025>>, <<"JUL", 2025>>, <<"AUG", 2025>>, <<"SEP", 2025>>,
     <<"OCT", 2025>>, <<"NOV", 2025>>, <<"DEC", 2025>>, <<"JAN", 2026>>}

\* The last month of the NHTSA window and the month after it.
last_month == <<NHTSA_WINDOW_END[1], NHTSA_WINDOW_END[2]>>

monthly_deadline_month ==
    LET next_mon == NHTSA_WINDOW_END[2] + 1
    IN  IF next_mon > 12 THEN <<NHTSA_WINDOW_END[1] + 1, 1>>
        ELSE <<NHTSA_WINDOW_END[1], next_mon>>

\* The months of the non-empty Report Submission Dates of the rows.
SubmissionMonths(rs) ==
    {nhtsa_month_to_iso(r.sub) : r \in {x \in Range(rs) : x.sub # <<>>}}

\* A completeness test that looks for the last month itself.
LastMonthIncompleteOffByOne(months) == last_month \notin months

\* Whether the Monthly reports of the last month are structurally missing.
LastMonthIncomplete(months) == monthly_deadline_month \notin months

\* main() filters the validated rows to the window and calls
\* incident_coverage, which returns {} when every month is complete.
CoverageBegin ==
    /\ Running("coverage")
    /\ nhtsa_rows' =
         SelectSeqBy(valid_rows,
                     {r \in Range(valid_rows) : r.idate \in VMT_NHTSA_MONTHS})
    /\ submission_months' = SubmissionMonths(nhtsa_rows')
    /\ IF LastMonthIncomplete(submission_months')
       THEN pc' = "cov_dedup" /\ UNCHANGED inc_cov
       ELSE pc' = "fetch_vmt" /\ inc_cov' = EmptyMap
    /\ UNCHANGED <<err, rows, fault_files, valid_rows, mi, models, fault_ids,
                   by_incident, window_by_incident, excluded_count, incidents,
                   cov_incident, counts, companies, five_day_fracs,
                   last_month_has_monthly, ci, result>>
    /\ UNCHANGED extVars

\* Whether a row of version ver is the latest / the earliest seen so far.
CovLatest(ver, rec) == ver > rec.ver

\* An original type that follows the latest version instead of the first.
CovEarliestIsLatest(ver, rec) == ver > rec.min_ver

CovEarliest(ver, rec) == ver < rec.min_ver

RECURSIVE CovDedupRows(_, _)
\* The dedup loop of incident_coverage: company and month follow the
\* highest version, report_type the lowest.
CovDedupRows(rs, acc) ==
    IF rs = <<>> THEN acc
    ELSE
      LET r           == Head(rs)
          iid         == r.iid
          ver         == IntOf(r.ver)
          company     == COMPANY_SHORT(Strip(r.entity))
          month       == nhtsa_month_to_iso(r.idate)
          report_type == Strip(r.rtype)
      IN  IF iid \notin Keys(acc)
          THEN CovDedupRows(Tail(rs),
                 Append(acc, [iid |-> iid, ver |-> ver, min_ver |-> ver,
                              company |-> company, month |-> month,
                              report_type |-> report_type]))
          ELSE
            LET i    == IndexOf(acc, iid)
                rec  == acc[i]
                rec1 == IF CovLatest(ver, rec)
                        THEN [rec EXCEPT !.ver = ver, !.company = company,
                                         !.month = month]
                        ELSE rec
                rec2 == IF CovEarliest(ver, rec1)
                        THEN [rec1 EXCEPT !.min_ver = ver,
                                          !.report_type = report_type]
                        ELSE rec1
            IN  CovDedupRows(Tail(rs), [acc EXCEPT ![i] = rec2])

CovDedup ==
    /\ Running("cov_dedup")
    /\ cov_incident' = CovDedupRows(NoneRows(nhtsa_rows), <<>>)
    /\ pc' = "cov_tally"
    /\ UNCHANGED <<err, rows, fault_files, valid_rows, mi, models, fault_ids,
                   by_incident, window_by_incident, excluded_count, incidents,
                   nhtsa_rows, submission_months, counts, companies,
                   five_day_fracs, last_month_has_monthly, ci, result,
                   inc_cov>>
    /\ UNCHANGED extVars

\* A classifier that does not take a first filing of type "Update" for quick.
QuickTypesWithoutUpdate == {"1-Day", "5-Day", "10-Day Update"}

QUICK_TYPES == {"1-Day", "5-Day", "Update", "10-Day Update"}

\* The place of a (company, month) key in counts, 0 if it is not there.
CountIndex(cs, company, month) ==
    IF \E i \in DOMAIN cs : cs[i].company = company /\ cs[i].month = month
    THEN CHOOSE i \in DOMAIN cs : cs[i].company = company /\ cs[i].month = month
    ELSE 0

RECURSIVE TallyRecs(_, _)
\* The tally loop: <<error, counts>>.
TallyRecs(recs, cs) ==
    IF recs = <<>> THEN <<"", cs>>
    ELSE
      LET rec        == Head(recs)
          is_quick   == rec.report_type \in QUICK_TYPES
          is_monthly == rec.report_type = "Monthly"
          i          == CountIndex(cs, rec.company, rec.month)
          cs1        == IF i = 0
                        THEN Append(cs, [company |-> rec.company,
                                         month |-> rec.month,
                                         five |-> 0, total |-> 0])
                        ELSE cs
          j          == IF i = 0 THEN Len(cs1) ELSE i
          cs2        == [cs1 EXCEPT ![j].total = @ + 1,
                                    ![j].five = IF is_quick THEN @ + 1 ELSE @]
      IN  IF ~(is_quick \/ is_monthly)
          THEN <<"unexpected original report type", cs>>
          ELSE TallyRecs(Tail(recs), cs2)

CovTally ==
    /\ Running("cov_tally")
    /\ LET t == TallyRecs(cov_incident, <<>>)
       IN  IF t[1] # ""
           THEN Raise(t[1]) /\ counts' = t[2]
           ELSE counts' = t[2] /\ pc' = "cov_fracs" /\ UNCHANGED err
    /\ UNCHANGED <<rows, fault_files, valid_rows, mi, models, fault_ids,
                   by_incident, window_by_incident, excluded_count, incidents,
                   nhtsa_rows, submission_months, cov_incident, companies,
                   five_day_fracs, last_month_has_monthly, ci, result,
                   inc_cov>>
    /\ UNCHANGED extVars

\* has_monthly: the month has an incident first filed as Monthly.
HasMonthly(c) == c.total > c.five

\* The months whose ratio is used: with Monthly reports and enough data.
MinIncidents == 3

\* A month filter that forgets to ask for a Monthly report.
UsableMonthAnyType(c) == c.total >= MinIncidents

UsableMonth(c) == HasMonthly(c) /\ c.total >= MinIncidents

RECURSIVE SortedByRank(_)
\* sorted(set of company names)
SortedByRank(S) ==
    IF S = {} THEN <<>>
    ELSE LET c == CHOOSE x \in S : \A y \in S : StrRank(x) <= StrRank(y)
         IN  <<c>> \o SortedByRank(S \ {c})

RECURSIVE FracsOf(_, _)
\* The ratios five / total of a company's usable months other than the
\* last, in the order of counts.
FracsOf(company, cs) ==
    IF cs = <<>> THEN <<>>
    ELSE LET c == Head(cs)
         IN  IF c.company # company \/ c.month = last_month
                 THEN FracsOf(company, Tail(cs))
             ELSE IF UsableMonth(c)
                 THEN <<<<c.five, c.total>>>> \o FracsOf(company, Tail(cs))
             ELSE FracsOf(company, Tail(cs))

CovFracs ==
    /\ Running("cov_fracs")
    /\ LET names == {counts[i].company : i \in DOMAIN counts}
           last  == {i \in DOMAIN counts : counts[i].month = last_month}
       IN  /\ companies' = SortedByRank(names)
           /\ five_day_fracs' = [co \in names |-> FracsOf(co, counts)]
           /\ last_month_has_monthly' =
                [co \in {counts[i].company : i \in last} |->
                    HasMonthly(counts[CountIndex(counts, co, last_month)])]
    /\ ci' = 1
    /\ result' = EmptyMap
    /\ pc' = "cov_result"
    /\ UNCHANGED <<err, rows, fault_files, valid_rows, mi, models, fault_ids,
                   by_incident, window_by_incident, excluded_count, incidents,
                   nhtsa_rows, submission_months, cov_incident, counts,
                   inc_cov>>
    /\ UNCHANGED extVars

\* The triple of a complete month.
FullCoverage == <<RoundScale, RoundScale, RoundScale>>

\* An estimator that never takes a company for an early filer.
NeverEarlyFiler(company) == FALSE

\* last_month_has_monthly.get(company, False)
EarlyFiler(company) ==
    company \in DOMAIN last_month_has_monthly /\ last_month_has_monthly[company]

\* An estimator without the fallback for an empty list of ratios.
AlwaysHistory(fracs) == FALSE

\* "if not fracs": no historical ratio to estimate from.
NoHistory(fracs) == Len(fracs) = 0

\* must(0 < p_lo <= p_best <= p_hi <= 1) on the exact values, the ratios
\* being numerators over d and the mean being sum / (n * d).
InRange(lo, sum, hi, n, d) ==
    0 < lo /\ lo * n <= sum /\ sum <= hi * n /\ hi <= d

\* The float mean of three or more equal ratios may differ from them in
\* the last bit (sum([0.7] * 3) / 3 < 0.7), and then must() raises;
\* otherwise the float comparison agrees with the exact one.
MustOutcomes(fracs, exact) ==
    IF exact /\ Len(fracs) >= 3 /\ Cardinality(Range(fracs)) = 1
    THEN {TRUE, FALSE}
    ELSE {exact}

\* One turn of the result loop of incident_coverage.
CovResult ==
    /\ Running("cov_result")
    /\ ci <= Len(companies)
    /\ LET company == companies[ci]
           key     == <<company, last_month>>
           fracs   == five_day_fracs[company]
           d       == LCMOfTotals(fracs)
           ns      == Scaled(fracs, d)
           n       == Len(fracs)
       IN  IF EarlyFiler(company) \/ NoHistory(fracs)
           THEN /\ result' = Put(result, key, FullCoverage)
                /\ printed' = Append(printed,
                      Line(IF EarlyFiler(company)
                           THEN "incident_coverage: 1.0 (Monthly reports present)"
                           ELSE "incident_coverage: 1.0 (no historical data)",
                           0, "", company, last_month))
                /\ ci' = ci + 1
                /\ UNCHANGED <<pc, err>>
           ELSE IF n = 0
           THEN Raise("ZeroDivisionError")
                /\ UNCHANGED <<result, ci, printed>>
           ELSE \E passes \in MustOutcomes(fracs,
                    InRange(MinOf(ns), SumSeq(ns), MaxOf(ns), n, d)) :
                  IF passes
                  THEN /\ result' = Put(result, key,
                                        <<Round4(SumSeq(ns), n * d),
                                          Round4(MinOf(ns), d),
                                          Round4(MaxOf(ns), d)>>)
                       /\ printed' = Append(printed,
                             Line("incident_coverage: best lo hi (from n complete months)",
                                  n, "", company, last_month))
                       /\ ci' = ci + 1
                       /\ UNCHANGED <<pc, err>>
                  ELSE Raise("5-Day fraction out of range")
                       /\ UNCHANGED <<result, ci, printed>>
    /\ UNCHANGED <<rows, fault_files, valid_rows, mi, models, fault_ids,
                   by_incident, window_by_incident, excluded_count, incidents,
                   nhtsa_rows, submission_months, cov_incident, counts,
                   companies, five_day_fracs, last_month_has_monthly,
                   inc_cov>>
    /\ UNCHANGED <<fileVars, fnVars>>

\* "return result" of incident_coverage, back in main().
CovReturn ==
    /\ Running("cov_result")
    /\ ci > Len(companies)
    /\ inc_cov' = result
    /\ pc' = "fetch_vmt"
    /\ UNCHANGED <<err, rows, fault_files, valid_rows, mi, models, fault_ids,
                   by_incident, window_by_incident, excluded_count, incidents,
                   nhtsa_rows, submission_months, cov_incident, counts,
                   companies, five_day_fracs, last_month_has_monthly, ci,
                   result>>
    /\ UNCHANGED extVars

\* ------------------------------------------------------ Schema Reconciler

\* ARCHIVE_COLUMN_MAP.items(): <<archive name, current name>>, in order.
ARCHIVE_COLUMN_MAP ==
    <<<<"SV Any Air Bags Deployed?", "Any Air Bags Deployed?">>,
      <<"SV Was Vehicle Towed?", "Was Any Vehicle Towed?">>,
      <<"SV Were All Passengers Belted?", "Were All Passengers Belted?">>,
      <<"Weather - Fog/Smoke", "Weather - Fog/Smoke/Haze">>,
      <<"Weather - Unknown", "Weather - Unk - See Narrative">>>>

\* A reconciler that copies the archive column over a present current one.
CanFillOverwriting(r, archive_key, current_key) == archive_key \in DOMAIN r

\* if current_key not in row and archive_key in row
CanFill(r, archive_key, current_key) ==
    current_key \notin DOMAIN r /\ archive_key \in DOMAIN r

RECURSIVE NormalizeFrom(_, _)
\* The loop over ARCHIVE_COLUMN_MAP from its i-th pair on.
NormalizeFrom(r, i) ==
    IF i > Len(ARCHIVE_COLUMN_MAP) THEN r
    ELSE LET archive_key == ARCHIVE_COLUMN_MAP[i][1]
             current_key == ARCHIVE_COLUMN_MAP[i][2]
         IN  IF CanFill(r, archive_key, current_key)
             THEN NormalizeFrom(Put(r, current_key, r[archive_key]), i + 1)
             ELSE NormalizeFrom(r, i + 1)

_normalize_archive_row(r) == NormalizeFrom(r, 1)

\* The rows of the archive CSV: any set of the columns of the first
\* MaxAliasedColumns pairs and of one column the map does not name, with
\* any of two cell values.
ArchiveKeys ==
    {"Report ID"} \cup
    UNION {{ARCHIVE_COLUMN_MAP[i][1], ARCHIVE_COLUMN_MAP[i][2]} :
             i \in {j \in DOMAIN ARCHIVE_COLUMN_MAP : j <= MaxAliasedColumns}}

ArchiveRows == UNION {[S -> {"Yes", "No"}] : S \in SUBSET ArchiveKeys}

\* fetch_nhtsa_csv applies the reconciler to a row of the archive; it is
\* applied once more to its own output.
Normalize ==
    /\ pc = "normalize"
    /\ calls < 2
    /\ archive_row' = _normalize_archive_row(archive_row)
    /\ calls' = calls + 1
    /\ UNCHANGED <<pc, err, rows, fault_files, valid_rows, mi, models,
                   fault_ids, by_incident, window_by_incident, excluded_count,
                   incidents, covVars, printed, fileVars, archive_row_in,
                   month_str, cov>>

\* ---------------------------------------------------------- month_coverage

\* calendar.monthrange(year, mon)[1]
DaysInMonth(year, mon) ==
    IF mon = 2
    THEN IF (year % 4 = 0 /\ year % 100 # 0) \/ year % 400 = 0
         THEN 29 ELSE 28
    ELSE IF mon \in {4, 6, 9, 11} THEN 30 ELSE 31

\* month_coverage(month_str), the month as <<year, mon>> and the value
\* returned as the ratio <<days, days_in_month>>, 1.0 being <<1, 1>>.
month_coverage(m) ==
    LET days_in_month == DaysInMonth(m[1], m[2])
    IN  IF m = <<2026, 1>> THEN <<NHTSA_WINDOW_END[3], days_in_month>>
        ELSE <<1, 1>>

\* The months month_coverage is called with.
CoverageMonths ==
    ((2025 - MaxYearsAround)..(2026 + MaxYearsAround)) \X (1..12)

MonthCoverage ==
    /\ pc = "month_coverage"
    /\ cov' = month_coverage(month_str)
    /\ pc' = "month_coverage_returned"
    /\ UNCHANGED <<err, rows, fault_files, valid_rows, mi, models,
                   fault_ids, by_incident, window_by_incident, excluded_count,
                   incidents, covVars, printed, fileVars, archive_row,
                   archive_row_in, calls, month_str>>

\* ------------------------------------------------- VMT sheet and injection

VMT_HEADER == "company,month,vmt,company_cumulative_vmt,vmt_min,vmt_max,rationale"

NEW_VMT_HEADER ==
    "company,month,vmt,company_cumulative_vmt,vmt_min,vmt_max,coverage,incident_coverage,incident_coverage_min,incident_coverage_max,rationale"

\* A data line of the sheet: the two cells fetch_vmt_sheet_csv reads (the
\* other cells are copied as they are).  A blank line has neither.
SheetLine(company_raw, month) == [company |-> company_raw, month |-> month]

BlankLine == SheetLine("", <<>>)

\* The sheets the download can deliver, as text.splitlines().
VmtSheetPool ==
    {<<>>,
     <<VMT_HEADER>>,
     <<"company,month,vmt", SheetLine("Waymo", <<2025, 6>>)>>,
     <<VMT_HEADER, SheetLine("Waymo", <<2025, 6>>), BlankLine,
       SheetLine("tesla", <<2026, 1>>)>>,
     <<VMT_HEADER, SheetLine("Zoox, Inc.", <<2026, 1>>),
       SheetLine("Cruise", <<2025, 12>>)>>}

\* The short name whose long name starts with company_raw or that equals
\* it, both without regard to case; company_raw itself if there is none.
SheetCompany(company_raw) ==
    CASE company_raw \in {"Waymo", "waymo", "Waymo LLC"}  -> "Waymo"
      [] company_raw \in {"Tesla", "tesla", "Tesla, Inc."} -> "Tesla"
      [] company_raw \in {"Zoox", "zoox", "Zoox, Inc."}    -> "Zoox"
      [] OTHER                                             -> company_raw

\* round(n / d, 3) in thousandths.
Round3(n, d) ==
    LET q    == LongDivide(n % d, d, 3, n \div d)
        down == q[1]
    IN  IF 2 * q[2] > d THEN down + 1
        ELSE IF 2 * q[2] < d THEN down
        ELSE IF down % 2 = 0 THEN down ELSE down + 1

\* The line fetch_vmt_sheet_csv writes for a data line: the cells of the
\* line, the coverage of its month and the incident_coverage triple of its
\* (company, month), <<1, 1, 1>> (here FullCoverage) if coverage has none.
OutLine(line, cover) ==
    LET key == <<SheetCompany(Strip(line.company)), line.month>>
        c   == month_coverage(line.month)
    IN  [company |-> line.company,
         month |-> line.month,
         coverage |-> Round3(c[1], c[2]),
         incident_coverage |-> IF key \in DOMAIN cover THEN cover[key]
                               ELSE FullCoverage]

RECURSIVE OutLines(_, _, _)
OutLines(lines, i, cover) ==
    IF i > Len(lines) THEN <<>>
    ELSE IF lines[i] = BlankLine THEN OutLines(lines, i + 1, cover)
    ELSE <<OutLine(lines[i], cover)>> \o OutLines(lines, i + 1, cover)

\* vmt_text = fetch_vmt_sheet_csv(inc_cov): the download can fail, and the
\* sheet it delivers is any of VmtSheetPool.
FetchVmt ==
    /\ Running("fetch_vmt")
    /\ \/ Raise("URLError") /\ UNCHANGED vmt_text
       \/ \E lines \in VmtSheetPool :
            IF ~(Len(lines) > 1)
            THEN Raise("VMT sheet CSV must include header and rows")
                 /\ UNCHANGED vmt_text
            ELSE IF lines[1] # VMT_HEADER
            THEN Raise("VMT sheet CSV header mismatch")
                 /\ UNCHANGED vmt_text
            ELSE /\ vmt_text' = <<NEW_VMT_HEADER>> \o OutLines(lines, 2, inc_cov)
                 /\ pc' = "write_incidents"
                 /\ UNCHANGED err
    /\ UNCHANGED <<rows, nhtsa_modified_date, fault_files, valid_rows, mi,
                   models, fault_ids, by_incident, window_by_incident,
                   excluded_count, incidents, covVars, printed, incidents_js,
                   vmt_js, fnVars>>

\* A file of the site: whether this run has rewritten it, and with what
\* between its markers.
OldFile == [written |-> FALSE, payload |-> <<>>]

NewFile(payload) == [written |-> TRUE, payload |-> payload]

\* Lines 629-642: incidents.js is read, the fetch date, the modified date
\* (<<>> for null) and the incidents are injected between their markers,
\* and the file is written back.  The file can be missing and any marker
\* can be absent.
WriteIncidents ==
    /\ Running("write_incidents")
    /\ \/ Raise("FileNotFoundError") /\ UNCHANGED incidents_js
       \/ Raise("ValueError: substring not found") /\ UNCHANGED incidents_js
       \/ /\ incidents_js' = NewFile(<<nhtsa_modified_date, incidents>>)
          /\ pc' = "write_vmt"
          /\ UNCHANGED err
    /\ UNCHANGED <<rows, nhtsa_modified_date, fault_files, valid_rows, mi,
                   models, fault_ids, by_incident, window_by_incident,
                   excluded_count, incidents, covVars, printed, vmt_text,
                   vmt_js, fnVars>>

\* Lines 644-650, after incidents.js has been written: vmt.js is read,
\* vmt_text is injected between its markers, and the file is written back.
WriteVmt ==
    /\ Running("write_vmt")
    /\ \/ Raise("FileNotFoundError") /\ UNCHANGED vmt_js
       \/ Raise("ValueError: substring not found") /\ UNCHANGED vmt_js
       \/ /\ vmt_js' = NewFile(vmt_text)
          /\ pc' = "summary"
          /\ UNCHANGED err
    /\ UNCHANGED <<rows, nhtsa_modified_date, fault_files, valid_rows, mi,
                   models, fault_ids, by_incident, window_by_incident,
                   excluded_count, incidents, covVars, printed, vmt_text,
                   incidents_js, fnVars>>

\* How many of the records are of the company.
CountOf(recs, company) ==
    Cardinality({i \in DOMAIN recs : recs[i].company = company})

RECURSIVE FirstSeen(_, _, _)
\* The companies of the records, in the order of their first record.
FirstSeen(recs, i, acc) ==
    IF i > Len(recs) THEN acc
    ELSE FirstSeen(recs, i + 1,
                   IF recs[i].company \in Range(acc) THEN acc
                   ELSE Append(acc, recs[i].company))

RECURSIVE InsertByCount(_, _, _)
InsertByCount(sorted, company, recs) ==
    IF sorted = <<>> THEN <<company>>
    ELSE IF CountOf(recs, company) > CountOf(recs, Head(sorted))
    THEN <<company>> \o sorted
    ELSE <<Head(sorted)>> \o InsertByCount(Tail(sorted), company, recs)

RECURSIVE MostCommonFrom(_, _, _)
MostCommonFrom(seen, acc, recs) ==
    IF seen = <<>> THEN acc
    ELSE MostCommonFrom(Tail(seen), InsertByCount(acc, Head(seen), recs), recs)

\* Counter(...).most_common(): most frequent first, equal counts in the
\* order of first occurrence.
most_common(recs) == MostCommonFrom(FirstSeen(recs, 1, <<>>), <<>>, recs)

\* Lines 652-659.
Summary ==
    /\ Running("summary")
    /\ LET order == most_common(incidents)
       IN  printed' =
             printed
             \o (IF nhtsa_modified_date # <<>>
                 THEN <<Line("NHTSA file last modified", 0, "", "",
                             nhtsa_modified_date)>>
                 ELSE <<>>)
             \o <<Line("Injected total incidents", Len(incidents), "", "", <<>>)>>
             \o [i \in 1..Len(order) |->
                   Line("company: n", CountOf(incidents, order[i]), "",
                        order[i], <<>>)]
    /\ pc' = "done"
    /\ UNCHANGED <<err, rows, nhtsa_modified_date, fault_files, valid_rows,
                   mi, models, fault_ids, by_incident, window_by_incident,
                   excluded_count, incidents, covVars, fileVars, fnVars>>

\* ----------------------------------------------------------- start states

\* Nothing fetched from the VMT sheet, neither output file rewritten.
FilesUntouched == vmt_text = <<>> /\ incidents_js = OldFile /\ vmt_js = OldFile

\* Neither _normalize_archive_row nor month_coverage is being run.
FunctionsIdle ==
    /\ archive_row = <<>> /\ archive_row_in = <<>> /\ calls = 0
    /\ month_str = <<>> /\ cov = <<>>

\* main() has not started: its locals and those of incident_coverage are
\* empty.
MainIdle ==
    /\ err = ""
    /\ rows = <<>>
    /\ fault_files = [m \in Range(FAULT_MODELS) |-> <<>>]
    /\ valid_rows = <<>>
    /\ mi = 1
    /\ models = [m \in Range(FAULT_MODELS) |-> <<>>]
    /\ fault_ids = {}
    /\ by_incident = <<>>
    /\ window_by_incident = <<>>
    /\ excluded_count = 0
    /\ incidents = <<>>
    /\ nhtsa_rows = <<>>
    /\ submission_months = {}
    /\ cov_incident = <<>>
    /\ counts = <<>>
    /\ companies = <<>>
    /\ five_day_fracs = EmptyMap
    /\ last_month_has_monthly = EmptyMap
    /\ ci = 1
    /\ result = EmptyMap
    /\ inc_cov = EmptyMap
    /\ printed = <<>>
    /\ nhtsa_modified_date = <<>>
    /\ FilesUntouched

\* ------------------------------------------- the schema reconciler alone

InitNormalize ==
    /\ pc = "normalize"
    /\ MainIdle
    /\ archive_row_in \in ArchiveRows
    /\ archive_row = archive_row_in
    /\ calls = 0
    /\ month_str = <<>>
    /\ cov = <<>>

NextNormalize == Normalize

SpecNormalize == InitNormalize /\ [][NextNormalize]_vars

\* ------------------------------------------------- month_coverage alone

InitMonth ==
    /\ pc = "month_coverage"
    /\ MainIdle
    /\ archive_row = <<>> /\ archive_row_in = <<>> /\ calls = 0
    /\ month_str \in CoverageMonths
    /\ cov = <<>>

NextMonth == MonthCoverage

SpecMonth == InitMonth /\ [][NextMonth]_vars

\* ------------------------------------------------- the fault loader alone

NoModels == [m \in Range(FAULT_MODELS) |-> <<>>]

InitFault ==
    /\ pc = "parse_fault"
    /\ err = ""
    /\ rows = <<>>
    /\ fault_files \in
         [claude : SeqsUpTo(FaultRowPool, MaxFaultRows),
          codex  : OtherFaultTables,
          gemini : OtherFaultTables]
    /\ valid_rows = <<>>
    /\ mi = 1
    /\ models = NoModels
    /\ fault_ids = {}
    /\ by_incident = <<>>
    /\ window_by_incident = <<>>
    /\ excluded_count = 0
    /\ incidents = <<>>
    /\ nhtsa_rows = <<>>
    /\ submission_months = {}
    /\ cov_incident = <<>>
    /\ counts = <<>>
    /\ companies = <<>>
    /\ five_day_fracs = EmptyMap
    /\ last_month_has_monthly = EmptyMap
    /\ ci = 1
    /\ result = EmptyMap
    /\ inc_cov = EmptyMap
    /\ printed = <<>>
    /\ nhtsa_modified_date = <<>>
    /\ FilesUntouched
    /\ FunctionsIdle

NextFault == ParseFault \/ MatchIds

SpecFault == InitFault /\ [][NextFault]_vars

\* --------------------------------------------------- the validator alone

InitValidate ==
    /\ pc = "validate"
    /\ err = ""
    /\ rows \in SeqsUpTo(ValidatePool, MaxCheckedRows)
    /\ fault_files = [m \in Range(FAULT_MODELS) |-> <<>>]
    /\ valid_rows = <<>>
    /\ mi = 1
    /\ models = NoModels
    /\ fault_ids = {}
    /\ by_incident = <<>>
    /\ window_by_incident = <<>>
    /\ excluded_count = 0
    /\ incidents = <<>>
    /\ nhtsa_rows = <<>>
    /\ submission_months = {}
    /\ cov_incident = <<>>
    /\ counts = <<>>
    /\ companies = <<>>
    /\ five_day_fracs = EmptyMap
    /\ last_month_has_monthly = EmptyMap
    /\ ci = 1
    /\ result = EmptyMap
    /\ inc_cov = EmptyMap
    /\ printed = <<>>
    /\ nhtsa_modified_date = <<>>
    /\ FilesUntouched
    /\ FunctionsIdle

NextValidate == Validate

SpecValidate == InitValidate /\ [][NextValidate]_vars

\* ------------------------------------------------------------------ main()

\* The Last-Modified header of the download: absent, or a date.
ModifiedDates == {<<>>, <<2026, 2, 1>>}

Init ==
    /\ pc = "validate"
    /\ err = ""
    /\ rows \in SeqsUpTo(RowPool, MaxRows)
    /\ fault_files \in MainFaultFiles
    /\ valid_rows = <<>>
    /\ mi = 1
    /\ models = NoModels
    /\ fault_ids = {}
    /\ by_incident = <<>>
    /\ window_by_incident = <<>>
    /\ excluded_count = 0
    /\ incidents = <<>>
    /\ nhtsa_rows = <<>>
    /\ submission_months = {}
    /\ cov_incident = <<>>
    /\ counts = <<>>
    /\ companies = <<>>
    /\ five_day_fracs = EmptyMap
    /\ last_month_has_monthly = EmptyMap
    /\ ci = 1
    /\ result = EmptyMap
    /\ inc_cov = EmptyMap
    /\ printed = <<>>
    /\ nhtsa_modified_date \in ModifiedDates
    /\ FilesUntouched
    /\ FunctionsIdle

Next ==
    \/ Validate
    \/ ParseFault
    \/ MatchIds
    \/ Dedup
    \/ WindowFilter
    \/ Merge
    \/ CheckAndSort
    \/ CoverageBegin
    \/ CovDedup
    \/ CovTally
    \/ CovFracs
    \/ CovResult
    \/ CovReturn
    \/ FetchVmt
    \/ WriteIncidents
    \/ WriteVmt
    \/ Summary

Spec == Init /\ [][Next]_vars

\* ------------------------------------------------- main() on re-dated rows

\* Incidents whose versions differ in Incident Date or Reporting Entity:
\* Z is filed inside the window, re-dated to the month after it and then to
\* a month inside it under another entity; V is filed before the window and
\* re-dated into it; W has one version.  No row is submitted in the
\* deadline month.
ReDatedRowPool ==
    {Row("Z", "R20", "1", "None", "5-Day", "Waymo LLC", <<"JAN", 2026>>,
         <<"JAN", 2026>>),
     Row("Z", "R21", "2", "None", "Update", "Waymo LLC", <<"FEB", 2026>>,
         <<>>),
     Row("Z", "R22", "3", "None", "Update", "Tesla, Inc.", <<"DEC", 2025>>,
         <<>>),
     Row("V", "R23", "1", "None", "Monthly", "Zoox, Inc.", <<"MAY", 2025>>,
         <<>>),
     Row("V", "R24", "2", "None", "Update", "Zoox, Inc.", <<"JUN", 2025>>,
         <<>>),
     Row("W", "R25", "1", "None", "Monthly", "Waymo LLC", <<"JAN", 2026>>,
         <<>>)}

\* Every estimator has an estimate for every report of the pool.
ReDatedFaultFiles ==
    LET full == TableFor(<<"R20", "R21", "R22", "R23", "R24", "R25">>)
    IN  [claude |-> full, codex |-> full, gemini |-> full]

InitReDated ==
    /\ pc = "validate"
    /\ err = ""
    /\ rows \in SeqsUpTo(ReDatedRowPool, MaxRows)
    /\ fault_files = ReDatedFaultFiles
    /\ valid_rows = <<>>
    /\ mi = 1
    /\ models = NoModels
    /\ fault_ids = {}
    /\ by_incident = <<>>
    /\ window_by_incident = <<>>
    /\ excluded_count = 0
    /\ incidents = <<>>
    /\ nhtsa_rows = <<>>
    /\ submission_months = {}
    /\ cov_incident = <<>>
    /\ counts = <<>>
    /\ companies = <<>>
    /\ five_day_fracs = EmptyMap
    /\ last_month_has_monthly = EmptyMap
    /\ ci = 1
    /\ result = EmptyMap
    /\ inc_cov = EmptyMap
    /\ printed = <<>>
    /\ nhtsa_modified_date \in ModifiedDates
    /\ FilesUntouched
    /\ FunctionsIdle

SpecReDated == InitReDated /\ [][Next]_vars

\* ------------------------------------------- the coverage estimator alone

\* The window months before the last one the tallies may cover: the last
\* MaxHistoryMonths of June..December 2025, oldest first.
HistoryMonths ==
    LET all == <<<<2025, 6>>, <<2025, 7>>, <<2025, 8>>, <<2025, 9>>,
                 <<2025, 10>>, <<2025, 11>>, <<2025, 12>>>>
    IN  SubSeq(all, Len(all) - MaxHistoryMonths + 1, Len(all))

\* The tallies the estimator is run on: a (company, month) slot is absent
\* or holds one of a few <<five, total>> pairs (ratios 0.8, 0.9, 0.7, 1.0,
\* a month with fewer than MinIncidents incidents, a month with no quick
\* report, a ratio below half a ten-thousandth).
CountSlots ==
    [i \in 1..MaxHistoryMonths |-> <<"Waymo", HistoryMonths[i]>>]
    \o <<<<"Waymo", last_month>>,
         <<"Tesla", <<2025, 12>>>>, <<"Tesla", last_month>>>>

Absent == <<0, 0>>

SlotChoices(slot) ==
    IF slot[1] = "Waymo" /\ slot[2] # last_month
        THEN {Absent, <<4, 5>>, <<9, 10>>, <<7, 10>>, <<3, 3>>, <<1, 2>>,
              <<0, 3>>, <<1, 20001>>}
    ELSE IF slot[1] = "Waymo" THEN {Absent, <<1, 1>>, <<1, 2>>}
    ELSE IF slot[2] # last_month THEN {Absent, <<2, 3>>}
    ELSE {Absent, <<0, 1>>}

RECURSIVE CountsFrom(_)
\* Every counts dict over the slots from i on (in slot order).
CountsFrom(i) ==
    IF i > Len(CountSlots) THEN {<<>>}
    ELSE {IF c = Absent THEN rest
          ELSE <<[company |-> CountSlots[i][1], month |-> CountSlots[i][2],
                  five |-> c[1], total |-> c[2]]>> \o rest :
            c \in SlotChoices(CountSlots[i]), rest \in CountsFrom(i + 1)}

CountsChoices == CountsFrom(1)

InitCov ==
    /\ pc = "cov_fracs"
    /\ err = ""
    /\ rows = <<>>
    /\ fault_files = [m \in Range(FAULT_MODELS) |-> <<>>]
    /\ valid_rows = <<>>
    /\ mi = 1
    /\ models = NoModels
    /\ fault_ids = {}
    /\ by_incident = <<>>
    /\ window_by_incident = <<>>
    /\ excluded_count = 0
    /\ incidents = <<>>
    /\ nhtsa_rows = <<>>
    /\ submission_months = {}
    /\ cov_incident = <<>>
    /\ counts \in CountsChoices
    /\ companies = <<>>
    /\ five_day_fracs = EmptyMap
    /\ last_month_has_monthly = EmptyMap
    /\ ci = 1
    /\ result = EmptyMap
    /\ inc_cov = EmptyMap
    /\ printed = <<>>
    /\ nhtsa_modified_date = <<>>
    /\ FilesUntouched
    /\ FunctionsIdle

NextCov == CovFracs \/ CovResult \/ CovReturn

SpecCov == InitCov /\ [][NextCov]_vars

\* ---------------------------------------------------- extract_incidents.py

RECURSIVE InsertByVersionDesc(_, _)
\* rows.sort(key=int(version), reverse=True) is stable: a row goes behind
\* the rows of the same or a higher version that came before it.
InsertByVersionDesc(sorted, r) ==
    IF sorted = <<>> THEN <<r>>
    ELSE IF IntOf(r.ver) > IntOf(Head(sorted).ver) THEN <<r>> \o sorted
    ELSE <<Head(sorted)>> \o InsertByVersionDesc(Tail(sorted), r)

RECURSIVE SortByVersionDesc(_, _)
SortByVersionDesc(rs, acc) ==
    IF rs = <<>> THEN acc
    ELSE SortByVersionDesc(Tail(rs), InsertByVersionDesc(acc, Head(rs)))

\* latest_row of the incident iid: rows[0] of its sorted group.
LatestRow(rs, iid) ==
    Head(SortByVersionDesc(
           SelectSeqBy(rs, {r \in Range(rs) : r.dtype = "None" /\ r.iid = iid}),
           <<>>))

\* ================================================================ claims

AfterDedup == pc \notin {"validate", "parse_fault", "match_ids", "dedup"}

AfterMerge == pc \notin {"validate", "parse_fault", "match_ids", "dedup",
                         "window", "merge"}

AfterCovDedup == pc \in {"cov_tally", "cov_fracs", "cov_result"}
                 \/ (pc \in {"fetch_vmt", "write_incidents", "write_vmt",
                             "summary", "done"}
                     /\ cov_incident # <<>>)

Returned == pc = "fetch_vmt" /\ err = ""

\* Versions are distinct within each Same Incident ID.
DistinctVersions(rs) ==
    \A i, j \in DOMAIN rs :
        (i # j /\ rs[i].iid = rs[j].iid) => IntOf(rs[i].ver) # IntOf(rs[j].ver)

\* The rows of incident iid with the highest / the lowest version.
HighestRows(rs, iid) ==
    {r \in Range(rs) : /\ r.iid = iid
                       /\ \A q \in Range(rs) :
                            q.iid = iid => IntOf(q.ver) <= IntOf(r.ver)}

LowestRows(rs, iid) ==
    {r \in Range(rs) : /\ r.iid = iid
                       /\ \A q \in Range(rs) :
                            q.iid = iid => IntOf(q.ver) >= IntOf(r.ver)}

\* Every ordering of a sequence.
Orderings(rs) ==
    {[i \in DOMAIN rs |-> rs[f[i]]] :
        f \in {g \in [DOMAIN rs -> DOMAIN rs] :
                 \A a, b \in DOMAIN rs : a # b => g[a] # g[b]}}

Selected(d) == {<<d[i].iid, d[i]._row>> : i \in DOMAIN d}

CovSelected(d) == {<<d[i].iid, d[i].ver, d[i].company, d[i].month>> :
                     i \in DOMAIN d}

\* C1: when the versions of the driverless rows are distinct within each
\* Same Incident ID, the dedup loop of main() keeps, for every incident id,
\* the row with the highest Report Version, and so does it on every other
\* ordering of the same rows; latest_incidents of extract_incidents.py picks
\* the same row, and the dedup loop of incident_coverage takes version,
\* company and month from the highest version of the rows it is given.
C1_MaxVersionSelected ==
    /\ (AfterDedup /\ DistinctVersions(NoneRows(valid_rows))) =>
         LET none == NoneRows(valid_rows)
         IN  /\ Keys(by_incident) = {r.iid : r \in Range(none)}
             /\ \A i \in DOMAIN by_incident :
                  /\ HighestRows(none, by_incident[i].iid) = {by_incident[i]._row}
                  /\ LatestRow(valid_rows, by_incident[i].iid)
                       = by_incident[i]._row
             /\ \A o \in Orderings(none) :
                  Selected(DedupRows(o, <<>>)) = Selected(by_incident)
    /\ (AfterCovDedup /\ DistinctVersions(NoneRows(nhtsa_rows))) =>
         LET none == NoneRows(nhtsa_rows)
         IN  /\ \A i \in DOMAIN cov_incident :
                  \E r \in HighestRows(none, cov_incident[i].iid) :
                     /\ cov_incident[i].ver = IntOf(r.ver)
                     /\ cov_incident[i].company = COMPANY_SHORT(Strip(r.entity))
                     /\ cov_incident[i].month = nhtsa_month_to_iso(r.idate)
             /\ \A o \in Orderings(none) :
                  CovSelected(CovDedupRows(o, <<>>)) = CovSelected(cov_incident)

\* C1 witness: two versions of one incident were deduplicated with the
\* higher version first in the input, and the higher version was kept.
C1_Witness ==
    /\ pc = "window"
    /\ DistinctVersions(NoneRows(valid_rows))
    /\ \E i, j \in DOMAIN valid_rows :
         /\ i < j
         /\ valid_rows[i].dtype = "None" /\ valid_rows[j].dtype = "None"
         /\ valid_rows[i].iid = valid_rows[j].iid
         /\ IntOf(valid_rows[i].ver) > IntOf(valid_rows[j].ver)
         /\ \E k \in DOMAIN by_incident : by_incident[k]._row = valid_rows[i]

\* C2: in incident_coverage the report_type recorded for an incident is the
\* Report Type of a row of the lowest Report Version of its group, and the
\* company and month are those of a row of the highest Report Version (the
\* row, when the versions are distinct); versions 1 ('5-Day') and 2
\* ('Update') give '5-Day' with the company and month of version 2, in either
\* row order.
C2_OriginalTypeFromMinVersion ==
    AfterCovDedup =>
      LET none == NoneRows(nhtsa_rows)
      IN  /\ \A i \in DOMAIN cov_incident :
               LET e == cov_incident[i]
               IN  /\ \E r \in LowestRows(none, e.iid) :
                        /\ e.report_type = Strip(r.rtype)
                        /\ e.min_ver = IntOf(r.ver)
                   /\ \E r \in HighestRows(none, e.iid) :
                        /\ e.company = COMPANY_SHORT(Strip(r.entity))
                        /\ e.month = nhtsa_month_to_iso(r.idate)
                        /\ e.ver = IntOf(r.ver)
          /\ \A v1, v2 \in Range(none) :
               (/\ Len(none) = 2
                /\ v1.iid = v2.iid
                /\ v1.ver = "1" /\ v1.rtype = "5-Day"
                /\ v2.ver = "2" /\ v2.rtype = "Update") =>
                 /\ Len(cov_incident) = 1
                 /\ cov_incident[1].report_type = "5-Day"
                 /\ cov_incident[1].company = COMPANY_SHORT(v2.entity)
                 /\ cov_incident[1].month = nhtsa_month_to_iso(v2.idate)

\* C2 witness: version 2 ('Update', JAN-2026) came before version 1
\* ('5-Day', DEC-2025) and the entry is typed '5-Day' in 2026-01.
C2_Witness ==
    /\ pc = "cov_tally"
    /\ Len(nhtsa_rows) = 2
    /\ nhtsa_rows[1].ver = "2" /\ nhtsa_rows[1].rtype = "Update"
    /\ nhtsa_rows[2].ver = "1" /\ nhtsa_rows[2].rtype = "5-Day"
    /\ nhtsa_rows[1].iid = nhtsa_rows[2].iid
    /\ Len(cov_incident) = 1
    /\ cov_incident[1].report_type = "5-Day"
    /\ cov_incident[1].month = <<2026, 1>>

\* The driverless validated rows of an incident id, as main() groups them.
CanonicalInWindow(iid) ==
    \E i \in DOMAIN by_incident :
        by_incident[i].iid = iid /\ by_incident[i]._row.idate \in VMT_MONTHS

\* C3: after deduplication and window filtering the incident list holds
\* exactly one record for each Same Incident ID that occurs among the
\* validated driverless rows and whose canonical row is dated inside the
\* analysis months: no incident id appears twice and none is missing.
C3_OneRecordPerIncident ==
    (AfterMerge /\ err = "") =>
      /\ \A i, j \in DOMAIN incidents :
           i # j => incidents[i].incidentId # incidents[j].incidentId
      /\ {incidents[i].incidentId : i \in DOMAIN incidents}
           = {Strip(r.iid) : r \in {x \in Range(NoneRows(valid_rows)) :
                                      CanonicalInWindow(x.iid)}}

\* The triples of the map incident_coverage has returned.
Triples == {inc_cov[k] : k \in DOMAIN inc_cov}

\* C4: every triple (best, lo, hi) of the map incident_coverage returns,
\* rounded to 4 decimals as it is stored, satisfies
\* 0 < lo <= best <= hi <= 1.
C4_TripleInRange ==
    Returned =>
      \A t \in Triples : 0 < t[2] /\ t[2] <= t[1] /\ t[1] <= t[3]
                         /\ t[3] <= RoundScale

\* The tally of a company in the last month, if it has one.
LastMonthCounts(company) ==
    {counts[i] : i \in {j \in DOMAIN counts : /\ counts[j].company = company
                                               /\ counts[j].month = last_month}}

\* A company with an incident of the last month first filed as Monthly.
FiledMonthlyInLastMonth(company) ==
    \E c \in LastMonthCounts(company) : c.total > c.five

\* The companies whose turn of the result loop is over.
Processed == {companies[i] : i \in {j \in DOMAIN companies : j < ci}}

RatiosWhere(company, ok(_)) ==
    LET idx == {i \in DOMAIN counts : /\ counts[i].company = company
                                      /\ counts[i].month # last_month
                                      /\ ok(counts[i])}
        pick == SelectSeqBy(counts, {counts[i] : i \in idx})
    IN  [i \in DOMAIN pick |-> <<pick[i].five, pick[i].total>>]

\* (mean, min, max) of a non-empty list of ratios, rounded to 4 decimals.
MeanMinMax(fracs) ==
    LET d  == LCMOfTotals(fracs)
        ns == Scaled(fracs, d)
    IN  <<Round4(SumSeq(ns), Len(ns) * d), Round4(MinOf(ns), d),
          Round4(MaxOf(ns), d)>>

AtLeastMinIncidents(c) == c.total >= MinIncidents

MonthlyAndMinIncidents(c) == c.total >= MinIncidents /\ c.total > c.five

\* A history of four months with the ratios 0.7, 0.8, 0.9 and 1.0.
IsExampleHistory(fracs) ==
    /\ Len(fracs) = 4
    /\ \A i \in DOMAIN fracs : (fracs[i][1] * 10) % fracs[i][2] = 0
    /\ {(fracs[i][1] * 10) \div fracs[i][2] : i \in DOMAIN fracs}
         = {7, 8, 9, 10}

\* C6 as stated: a company with no Monthly filing in the last month gets
\* (mean, min, max) of the ratios of all its other months with at least 3
\* incidents; the ratios [0.8, 0.9, 0.7, 1.0] give (0.85, 0.7, 1.0).
C6_AllMonthsWithThreeIncidents ==
    Returned =>
      \A i \in DOMAIN counts :
        LET co    == counts[i].company
            fracs == RatiosWhere(co, AtLeastMinIncidents)
        IN  (~FiledMonthlyInLastMonth(co) /\ Len(fracs) > 0) =>
              /\ inc_cov[<<co, last_month>>] = MeanMinMax(fracs)
              /\ IsExampleHistory(fracs) =>
                   inc_cov[<<co, last_month>>] = <<8500, 7000, 10000>>

\* C6 amended: for a company with no incident of the last month first filed
\* as Monthly, the map incident_coverage returns holds (mean, min, max),
\* rounded to 4 decimals, of the ratios of its other months that have at
\* least 3 incidents and at least one incident first filed as Monthly, and
\* (1.0, 1.0, 1.0) when it has no such month; a history with the ratios
\* [0.8, 0.9, 0.7, 1.0] gives (0.8, 0.7, 0.9), the month without a Monthly
\* filing (ratio 1.0) being left out.
C6_MonthsWithMonthlyOnly ==
    Returned =>
      \A i \in DOMAIN counts :
        LET co    == counts[i].company
            fracs == RatiosWhere(co, MonthlyAndMinIncidents)
        IN  ~FiledMonthlyInLastMonth(co) =>
              /\ <<co, last_month>> \in DOMAIN inc_cov
              /\ inc_cov[<<co, last_month>>] =
                   IF Len(fracs) = 0 THEN FullCoverage ELSE MeanMinMax(fracs)
              /\ IsExampleHistory(RatiosWhere(co, AtLeastMinIncidents)) =>
                   inc_cov[<<co, last_month>>] = <<8000, 7000, 9000>>

\* C6 witness: Waymo's other months have the ratios 0.8, 0.9, 0.7 and 1.0,
\* it has no Monthly filing in the last month, and the map is returned.
C6_Witness ==
    /\ Returned
    /\ ~FiledMonthlyInLastMonth("Waymo")
    /\ IsExampleHistory(RatiosWhere("Waymo", AtLeastMinIncidents))
    /\ inc_cov[<<"Waymo", last_month>>] = <<8000, 7000, 9000>>

\* The months of the submission dates of the rows incident_coverage got.
DeadlineMonthSubmitted ==
    \E r \in Range(nhtsa_rows) :
        r.sub # <<>> /\ nhtsa_month_to_iso(r.sub) = monthly_deadline_month

ParsedFiles == {FAULT_MODELS[k] : k \in {j \in DOMAIN FAULT_MODELS : j < mi}}

FailedFiles == IF pc = "parse_fault" /\ err # "" THEN {FAULT_MODELS[mi]} ELSE {}

\* A fault fraction text that is a finite number in [0, 1].
FiniteUnitFraction(text) ==
    text \in {"0", "0.0", "0.5", "0.50", "0.7", "1", "1.0"}

\* The rows of a table as the claim reads them: a repeated identifier must
\* carry the same bytes (the identifier is taken stripped, and the table to
\* have a row, as the code does).
AcceptableByBytes(rs) ==
    /\ \A i \in DOMAIN rs :
         Strip(rs[i].reportID) # "" /\ FiniteUnitFraction(rs[i].faultfrac)
    /\ \A i, j \in DOMAIN rs :
         (i < j /\ Strip(rs[i].reportID) = Strip(rs[j].reportID)) =>
           /\ rs[j].faultfrac = rs[i].faultfrac
           /\ rs[j].reasoning = rs[i].reasoning

\* C9 as stated: parse_fault_csv succeeds (on a table with at least one row)
\* exactly when every row has a non-empty identifier and a finite fault
\* fraction in [0, 1] and every repeated identifier carries a fault fraction
\* and a reasoning text byte-identical to its first occurrence; the result
\* then holds one record per distinct identifier.
C9_SucceedsIffByteIdentical ==
    /\ \A m \in ParsedFiles :
         /\ AcceptableByBytes(fault_files[m])
         /\ Cardinality(Ids(models[m])) = Len(models[m])
         /\ Ids(models[m]) = {Strip(fault_files[m][i].reportID) :
                                i \in DOMAIN fault_files[m]}
    /\ \A m \in FailedFiles :
         Len(fault_files[m]) > 0 => ~AcceptableByBytes(fault_files[m])

\* The rows of a table as the code reads them: the identifier and the
\* reasoning stripped, the fraction as a number.
AcceptableAsParsed(rs) ==
    /\ Len(rs) > 0
    /\ \A i \in DOMAIN rs :
         /\ Strip(rs[i].reportID) # ""
         /\ Float(rs[i].faultfrac)[1] = "num"
         /\ Float(rs[i].faultfrac)[2] \in 0..10
    /\ \A i, j \in DOMAIN rs :
         (i < j /\ Strip(rs[i].reportID) = Strip(rs[j].reportID)) =>
           /\ Float(rs[j].faultfrac) = Float(rs[i].faultfrac)
           /\ Strip(rs[j].reasoning) = Strip(rs[i].reasoning)

\* C9 amended: parse_fault_csv (on a file with the three columns) succeeds
\* exactly when the table has at least one row, every row has an identifier
\* that is non-empty once stripped and a fault fraction that parses to a
\* finite number in [0, 1], and every repeated stripped identifier carries a
\* fraction numerically equal, and a reasoning equal once stripped, to those
\* of its first occurrence; the result then holds one record per distinct
\* stripped identifier, with the values of its first occurrence. Two
\* identical rows for R1 load as one record; a second fraction of 0.7 makes
\* the load fail.
C9_SucceedsIffEqualAsParsed ==
    /\ \A m \in ParsedFiles :
         LET rs == fault_files[m]
         IN  /\ AcceptableAsParsed(rs)
             /\ Cardinality(Ids(models[m])) = Len(models[m])
             /\ Ids(models[m]) = {Strip(rs[i].reportID) : i \in DOMAIN rs}
             /\ \A k \in DOMAIN models[m] :
                  LET first == CHOOSE i \in DOMAIN rs :
                                 /\ Strip(rs[i].reportID) = models[m][k].rid
                                 /\ \A j \in DOMAIN rs :
                                      Strip(rs[j].reportID) = models[m][k].rid
                                        => i <= j
                  IN  /\ models[m][k].faultfrac = Float(rs[first].faultfrac)[2]
                      /\ models[m][k].reasoning = Strip(rs[first].reasoning)
    /\ \A m \in FailedFiles : ~AcceptableAsParsed(fault_files[m])
    /\ \A m \in ParsedFiles \cup FailedFiles :
         LET rs == fault_files[m]
         IN  (/\ Len(rs) = 2
              /\ rs[1] = FaultRow("R1", "0.5", "ok")
              /\ rs[2].reportID = "R1" /\ rs[2].reasoning = "ok") =>
               /\ rs[2].faultfrac = "0.5" =>
                    m \in ParsedFiles /\ Len(models[m]) = 1
               /\ rs[2].faultfrac = "0.7" => m \in FailedFiles

\* C9 witness: two identical rows for R1 were loaded as one record.
C9_Witness ==
    /\ "claude" \in ParsedFiles
    /\ fault_files["claude"]
         = <<FaultRow("R1", "0.5", "ok"), FaultRow("R1", "0.5", "ok")>>
    /\ models["claude"]
         = <<[rid |-> "R1", faultfrac |-> 5, reasoning |-> "ok"]>>

\* load_fault_models has returned to main().
Loaded == pc \notin {"validate", "parse_fault", "match_ids"}

IdSetsIdentical ==
    \A a, b \in Range(FAULT_MODELS) : Ids(models[a]) = Ids(models[b])

\* C10: load_fault_models returns only when the identifier sets of claude,
\* codex and gemini are pairwise identical; when two of them differ the run
\* stops in load_fault_models, before any incident is merged.
C10_IdSetsPairwiseIdentical ==
    /\ Loaded => /\ IdSetsIdentical
                 /\ fault_ids = Ids(models["claude"])
    /\ (mi > Len(FAULT_MODELS) /\ ~IdSetsIdentical) =>
         /\ pc = "match_ids"
         /\ incidents = <<>>
    /\ incidents # <<>> => IdSetsIdentical

\* C10 witness: the three tables were parsed, their id sets differ, and the
\* run has stopped with the mismatch error.
C10_Witness ==
    /\ pc = "match_ids"
    /\ err = "fault model ID sets must match"
    /\ Ids(models["claude"]) = Ids(models["codex"])
    /\ Ids(models["gemini"]) # Ids(models["claude"])
    /\ incidents = <<>>

\* The run has passed the check of the fault estimates and the sort.
AfterSort == pc \notin {"validate", "parse_fault", "match_ids", "dedup",
                        "window", "merge", "sort"}

\* The report ids of the incident list.
IncidentIds == {incidents[i].reportId : i \in DOMAIN incidents}

\* The report ids of the canonical rows inside / outside the window.
CanonicalIds(inside) ==
    {Strip(by_incident[i]._row.rid) :
        i \in {j \in DOMAIN by_incident :
                 (by_incident[j]._row.idate \in VMT_MONTHS) = inside}}

\* The ids an estimator's file holds.
FileIds(m) == {Strip(fault_files[m][i].reportID) : i \in DOMAIN fault_files[m]}

\* C11 as stated: on a run that got past the check, the report ids of the
\* incident list are the ids with fault estimates, those of the incidents
\* the window excluded left aside: neither a strict subset nor a strict
\* superset.
C11_IdsEqualFaultIds ==
    (AfterSort /\ err = "") => IncidentIds = fault_ids \ CanonicalIds(FALSE)

\* C11 amended: on a run that got past the check, every report id of the
\* incident list (the ids of the in-window canonical rows) has an estimate
\* in each estimator's file, the ids with estimates being allowed to be
\* more; and a merge that meets an in-window canonical row without an
\* estimate stops with "missing fault estimates for report".
C11_IdsWithinFaultIds ==
    /\ (AfterSort /\ err = "") =>
         /\ IncidentIds \subseteq fault_ids
         /\ IncidentIds = CanonicalIds(TRUE)
         /\ \A m \in Range(FAULT_MODELS) : IncidentIds \subseteq FileIds(m)
    /\ (pc = "merge" /\ err # "") =>
         /\ err = "missing fault estimates for report"
         /\ CanonicalIds(TRUE) \ fault_ids # {}
    /\ (pc = "sort" /\ err = "") => IncidentIds \subseteq fault_ids

\* C11 witness: the run got past the check with an incident list whose ids
\* are some, not all, of the ids with estimates.
C11_Witness ==
    /\ AfterSort /\ err = ""
    /\ IncidentIds # {}
    /\ IncidentIds # fault_ids
    /\ IncidentIds \subseteq fault_ids

\* The first row of an estimator's file for a report id.
FirstFaultRow(m, rid) ==
    LET rs == fault_files[m]
        i  == CHOOSE k \in DOMAIN rs :
                /\ Strip(rs[k].reportID) = rid
                /\ \A j \in DOMAIN rs : Strip(rs[j].reportID) = rid => k <= j
    IN  rs[i]

\* C12: every record of the incident list carries, for each estimator, the
\* fault fraction and the reasoning of that estimator's file for the Report
\* ID of the incident's canonical row; the run only gets past the merge when
\* every in-window canonical row has an estimate, and a merge in which every
\* in-window canonical row has one does not fail, whatever estimates the
\* rows outside the window lack.
C12_FaultPerEstimator ==
    /\ (AfterMerge /\ err = "") =>
         \A i \in DOMAIN incidents :
           LET rec == incidents[i]
           IN  /\ \E e \in Range(window_by_incident) :
                    /\ rec.reportId = Strip(e._row.rid)
                    /\ rec.incidentId = Strip(e._row.iid)
               /\ DOMAIN rec.fault = Range(FAULT_MODELS)
               /\ \A m \in Range(FAULT_MODELS) :
                    /\ rec.reportId \in FileIds(m)
                    /\ rec.fault[m].faultfrac =
                         Float(FirstFaultRow(m, rec.reportId).faultfrac)[2]
                    /\ rec.fault[m].reasoning =
                         Strip(FirstFaultRow(m, rec.reportId).reasoning)
    /\ AfterMerge => CanonicalIds(TRUE) \subseteq fault_ids
    /\ (pc = "merge" /\ CanonicalIds(TRUE) \subseteq fault_ids) => err = ""
    /\ pc = "merge" => window_by_incident =
         SelectSeqBy(by_incident, {e \in Range(by_incident) :
                                     e._row.idate \in VMT_MONTHS})

\* C12 witness: a canonical row outside the window has no estimate, and the
\* merge has built the records of the rows inside it.
C12_Witness ==
    /\ AfterMerge /\ err = ""
    /\ incidents # <<>>
    /\ CanonicalIds(FALSE) \ fault_ids # {}

\* The canonical entries dated inside the analysis months, in the order of
\* by_incident, and the number of those dated outside.
EntriesInWindow ==
    SelectSeqBy(by_incident,
                {e \in Range(by_incident) : e._row.idate \in VMT_MONTHS})

OutOfWindowCount ==
    Cardinality({i \in DOMAIN by_incident :
                   by_incident[i]._row.idate \notin VMT_MONTHS})

AfterWindow == pc \notin {"validate", "parse_fault", "match_ids", "dedup",
                          "window"}

\* C13: the window filter never stops the run; it keeps exactly the
\* canonical entries dated JUN-2025 .. JAN-2026, so that the incident list
\* of a run that got past the merge has one record for each of them, in
\* their order before the sort, and no record of a canonical row dated
\* outside these months.
C13_OutOfWindowDropped ==
    /\ pc = "window" => err = ""
    /\ AfterWindow =>
         /\ window_by_incident = EntriesInWindow
         /\ excluded_count = OutOfWindowCount
    /\ (AfterMerge /\ err = "") =>
         /\ Len(incidents) = Len(EntriesInWindow)
         /\ \A e \in Range(EntriesInWindow) :
              \E i \in DOMAIN incidents :
                 /\ incidents[i].reportId = Strip(e._row.rid)
                 /\ incidents[i].date = e._row.idate
         /\ \A i \in DOMAIN incidents : incidents[i].date \in VMT_MONTHS
         /\ \A i \in DOMAIN incidents :
              incidents[i].reportId \notin CanonicalIds(FALSE)
    /\ (pc = "sort" /\ err = "") =>
         \A i \in DOMAIN incidents :
            incidents[i].reportId = Strip(EntriesInWindow[i]._row.rid)

\* C13 witness: an incident dated outside the window was dropped and the
\* run went on to build the records of the incidents inside it.
C13_Witness ==
    /\ AfterMerge /\ err = ""
    /\ excluded_count > 0
    /\ incidents # <<>>

\* The lines printed that identify the canonical entry e.
DiagnosticsOf(e) ==
    {i \in DOMAIN printed :
       /\ printed[i].reportId = Strip(e._row.rid)
       /\ printed[i].company \in {Strip(e._row.entity),
                                  COMPANY_SHORT(Strip(e._row.entity))}
       /\ printed[i].date \in {e._row.idate, nhtsa_month_to_iso(e._row.idate)}}

\* C14 as stated: every incident the window filter dropped has a printed
\* line that identifies it by report id, company and date.
C14_DiagnosticPerDroppedIncident ==
    AfterWindow =>
      \A e \in Range(by_incident) :
         e._row.idate \notin VMT_MONTHS => DiagnosticsOf(e) # {}

\* C14 amended: the window filter prints one line, carrying the number of
\* incidents it dropped and nothing else, when that number is positive, and
\* no line when it is zero; no line the run prints carries a report id.
C14_OnlyCountPrinted ==
    /\ pc = "merge" =>
         printed = IF OutOfWindowCount > 0
                   THEN <<Line("Excluded incidents outside VMT window",
                               OutOfWindowCount, "", "", <<>>)>>
                   ELSE <<>>
    /\ \A i \in DOMAIN printed : printed[i].reportId = ""
    /\ \A e \in Range(by_incident) : DiagnosticsOf(e) = {}

\* C14 witness: an incident was dropped with incidents left, and the only
\* line printed is the count.
C14_Witness ==
    /\ pc = "merge" /\ err = ""
    /\ OutOfWindowCount > 0
    /\ window_by_incident # <<>>
    /\ Len(printed) = 1
    /\ printed[1].count = OutOfWindowCount

\* A row with an empty Same Incident ID or an empty Incident Date.
EmptyIdOrDate(r) == Strip(r.iid) = "" \/ r.idate = <<>>

\* A month-year label with a recognized month token.
MonthYear(label) == Len(label) = 2 /\ label[1] \in DOMAIN MONTH_ABBR_TO_NUM

\* A row whose fields are all as the validator wants them; the Report
\* Submission Date is optional and only looked at when it is not empty.
RowAcceptable(r) ==
    /\ Strip(r.rtype) \in EXPECTED_REPORT_TYPES
    /\ Strip(r.dtype) \in EXPECTED_DRIVER_TYPES
    /\ Strip(r.entity) \in EXPECTED_COMPANIES
    /\ MonthYear(r.idate)
    /\ r.sub # <<>> => MonthYear(r.sub)
    /\ Strip(r.ver) \in {"1", "2", "3"}

ValidatorDone == pc # "validate" \/ err # ""

\* C15: on a non-empty row list the validation loop lets the run continue
\* exactly when every row with a non-empty Same Incident ID and a non-empty
\* Incident Date has its Report Type, Driver / Operator Type and Reporting
\* Entity in the allow-lists, month-year dates with a recognized month token
\* and a positive integer version; the rows with an empty id or date are
\* dropped, whatever their other fields hold, and the rows handed to the
\* later stages are the other rows, in their order.
C15_ValidatorAcceptsExactly ==
    (ValidatorDone /\ rows # <<>>) =>
      LET checked == {i \in DOMAIN rows : ~EmptyIdOrDate(rows[i])}
      IN  /\ (err = "") <=> (\A i \in checked : RowAcceptable(rows[i]))
          /\ err = "" =>
               /\ pc = "parse_fault"
               /\ valid_rows =
                    SelectSeqBy(rows, {r \in Range(rows) : ~EmptyIdOrDate(r)})
               /\ \A i \in DOMAIN valid_rows : ~EmptyIdOrDate(valid_rows[i])
          /\ err # "" =>
               /\ pc = "validate"
               /\ valid_rows = <<>>
               /\ \E i \in checked :
                    /\ ~RowAcceptable(rows[i])
                    /\ err = RowError(rows[i])
                    /\ \A j \in checked : j < i => RowAcceptable(rows[j])

\* C15 witness: a placeholder row whose other cells are all unacceptable
\* came before an acceptable row, and the run continued with that row only.
C15_Witness ==
    /\ pc = "parse_fault" /\ err = ""
    /\ Len(rows) = 2
    /\ EmptyIdOrDate(rows[1])
    /\ Strip(rows[1].rtype) \notin EXPECTED_REPORT_TYPES
    /\ Strip(rows[1].entity) \notin EXPECTED_COMPANIES
    /\ valid_rows = <<rows[2]>>

\* The pairs of ARCHIVE_COLUMN_MAP whose canonical key is k.
AliasesOf(k) ==
    {ARCHIVE_COLUMN_MAP[i][1] :
        i \in {j \in DOMAIN ARCHIVE_COLUMN_MAP : ARCHIVE_COLUMN_MAP[j][2] = k}}

CanonicalKeys == {ARCHIVE_COLUMN_MAP[i][2] : i \in DOMAIN ARCHIVE_COLUMN_MAP}

\* C16: _normalize_archive_row leaves every key of the row it is given with
\* its value, adds a canonical key exactly when it was absent and its
\* archive alias present, with the value of the alias, and adds nothing
\* else; applied to its own output, or to a row that has every canonical
\* key, it changes nothing.
C16_NormalizeIdempotent ==
    calls >= 1 =>
      /\ \A k \in DOMAIN archive_row_in :
           k \in DOMAIN archive_row /\ archive_row[k] = archive_row_in[k]
      /\ \A k \in DOMAIN archive_row \ DOMAIN archive_row_in :
           /\ k \in CanonicalKeys
           /\ \E a \in AliasesOf(k) :
                a \in DOMAIN archive_row_in /\ archive_row[k] = archive_row_in[a]
      /\ \A k \in CanonicalKeys :
           (k \notin DOMAIN archive_row_in
            /\ AliasesOf(k) \cap DOMAIN archive_row_in # {})
             => k \in DOMAIN archive_row
      /\ archive_row = _normalize_archive_row(archive_row_in)
      /\ _normalize_archive_row(archive_row) = archive_row
      /\ CanonicalKeys \subseteq DOMAIN archive_row_in
           => archive_row = archive_row_in

\* C16 witness: after two applications the row has a canonical key filled
\* from its alias, and another canonical key that was present keeps a value
\* different from its alias's.
C16_Witness ==
    /\ calls = 2
    /\ \E k \in DOMAIN archive_row \ DOMAIN archive_row_in : TRUE
    /\ \E k \in CanonicalKeys \cap DOMAIN archive_row_in :
         \E a \in AliasesOf(k) \cap DOMAIN archive_row_in :
            archive_row[k] # archive_row[a]

\* The days of a month that lie inside the observation window, which runs
\* from June 15, 2025 to January 15, 2026.
DaysInsideWindow(m) ==
    IF m = <<2025, 6>> THEN DaysInMonth(2025, 6) - 15 + 1
    ELSE IF m = <<2026, 1>> THEN 15
    ELSE DaysInMonth(m[1], m[2])

\* C17: month_coverage returns 1.0 for every month but 2025-06 and 2026-01,
\* and for each of these two the days inside the window over the days of the
\* month, a fraction strictly between 0 and 1.
C17_BothEndpointsProRated ==
    cov # <<>> =>
      IF month_str \in {<<2025, 6>>, <<2026, 1>>}
      THEN /\ 0 < cov[1] /\ cov[1] < cov[2]
           /\ cov[1] * DaysInMonth(month_str[1], month_str[2])
                = DaysInsideWindow(month_str) * cov[2]
      ELSE cov[1] = cov[2]

\* C18: a run that raised has written neither output file: incidents.js is
\* never rewritten by a run that then stops before vmt.js is.
C18_NoPartialOutput ==
    err # "" => ~incidents_js.written /\ ~vmt_js.written

\* Two driverless rows of the input with the same Same Incident ID and the
\* same Report Version.
TiedRows ==
    \E i, j \in DOMAIN rows :
       /\ i < j
       /\ rows[i].dtype = "None" /\ rows[j].dtype = "None"
       /\ RowError(rows[i]) = "" /\ RowError(rows[j]) = ""
       /\ ~EmptyIdOrDate(rows[i]) /\ ~EmptyIdOrDate(rows[j])
       /\ rows[i].iid = rows[j].iid
       /\ IntOf(rows[i].ver) = IntOf(rows[j].ver)

\* C19: a run whose input has two driverless rows with the same incident id
\* and the same version stops in the validator: it never goes on to pick
\* one of them.
C19_TieFailsValidation ==
    TiedRows => pc = "validate"

NO_OP_TYPE == "No New or Updated Incident Reports"

AfterCovTally == pc \in {"cov_fracs", "cov_result", "fetch_vmt",
                         "write_incidents", "write_vmt", "summary", "done"}

CoverageComputed == AfterCovTally /\ LastMonthIncomplete(submission_months)

\* The total the estimator tallied for (company, month), 0 if it has none.
TalliedTotal(company, month) ==
    LET hits == {i \in DOMAIN counts :
                    counts[i].company = company /\ counts[i].month = month}
    IN  IF hits = {} THEN 0 ELSE counts[CHOOSE i \in hits : TRUE].total

\* The number of output records of the company dated in the month.
OutputRecords(company, month) ==
    Cardinality({i \in DOMAIN incidents :
                    /\ incidents[i].company = company
                    /\ nhtsa_month_to_iso(incidents[i].date) = month})

\* The (company, month) pairs either side knows.
CompanyMonths ==
    {<<counts[i].company, counts[i].month>> : i \in DOMAIN counts}
    \cup {<<incidents[i].company, nhtsa_month_to_iso(incidents[i].date)>> :
             i \in DOMAIN incidents}

\* C21: whenever incident_coverage has tallied, its total for every
\* (company, month) is the number of output records with that company and
\* month.
C21_TalliesAgreeWithIncidents ==
    CoverageComputed =>
      \A k \in CompanyMonths : TalliedTotal(k[1], k[2]) = OutputRecords(k[1], k[2])

\* No driverless incident has its highest version dated outside the window
\* and another version dated inside it.
NoIncidentReDatedOut ==
    \A i \in DOMAIN by_incident :
       by_incident[i]._row.idate \notin VMT_MONTHS =>
         ~\E j \in DOMAIN valid_rows :
             /\ valid_rows[j].dtype = "None"
             /\ valid_rows[j].iid = by_incident[i]._row.iid
             /\ valid_rows[j].idate \in VMT_MONTHS

\* What does hold of the tallies: they agree with the output records
\* exactly on the inputs without such an incident.
TalliesAgreeUnlessReDatedOut ==
    CoverageComputed =>
      (NoIncidentReDatedOut
         <=> \A k \in CompanyMonths :
                TalliedTotal(k[1], k[2]) = OutputRecords(k[1], k[2]))

====
